---- MODULE Spec2Model ----
(***************************************************************************)
(* Point-of-sale checkout of the bookstore inventory application.         *)
(*                                                                         *)
(* The model covers the sales store (src/src/stores/sales.ts), the books  *)
(* store's stock update (src/src/stores/books.ts) and the persisted       *)
(* tables books, sales and sale_items (src/supabase-schema.sql).          *)
(*                                                                         *)
(* Money is held as an integer number of ticks, one tick being 1/10000 of *)
(* the currency unit: a price of 25.99 is 259900 ticks.  Book prices are  *)
(* whole cents (DECIMAL(10,2)), quantities and discounts are integers, so *)
(* subtotal * discount / 100 and subtotal * 0.08 are whole ticks and the  *)
(* arithmetic of the store is exact in this unit.                         *)
(***************************************************************************)
EXTENDS Integers, Sequences, FiniteSets, TLC

VARIABLES
    dbBooks,      \* table books: id -> row [price, stock], or NoBook
    dbSales,      \* table sales: sequence of header rows, in insertion order
    dbItems,      \* table sale_items: sequence of rows, in insertion order
    books,        \* per session: booksStore.books, id -> [price, stock] or NoBook
    currentSale,  \* per session: salesStore.currentSale (the draft)
    sales,        \* per session: salesStore.sales, newest first
    loading,      \* per session: salesStore.loading
    error,        \* per session: salesStore.error
    booksFlags,   \* per session: booksStore.loading and booksStore.error
    run,          \* activations of completeSale: position, locals, history
    call,         \* the last call of a draft operation: arguments and outcome
    admins,       \* table admins: the set of user ids listed
    dbCustomers,  \* table customers: the set of customer ids stored
    request,      \* the last request the data layer executed, and its result
    client,       \* the Supabase client: signed-in user, listeners, session reads
    authStore,    \* the auth store: session, isAdmin, initialized, loading, error
    task          \* the asynchronous activations around the auth store

\* the state of the authorization layer and of the auth store
authVars ==
    <<admins, dbCustomers, request, client, authStore, task>>

\* the state of the tables and of the books and sales stores
storeVars ==
    <<dbBooks, dbSales, dbItems, books, currentSale, sales, loading, error,
      booksFlags, run, call>>

vars ==
    <<dbBooks, dbSales, dbItems, books, currentSale, sales, loading, error,
      booksFlags, run, call, admins, dbCustomers, request, client, authStore,
      task>>

----------------------------------------------------------------------------
(* Bounds of the model *)

\* largest quantity argument passed to addItemToCurrentSale / updateItemQuantity
MaxQty == 2
\* largest absolute quantity a draft line may reach (caps repeated addItem)
MaxLineQty == 2
\* largest number of sale headers persisted in one behaviour of Spec
MaxSales == 1
\* largest number of sale headers persisted in one behaviour of SpecRace
MaxRaceSales == 2
\* largest number of draft operations made while one completeSale call of the
\* same session is awaiting a reply
MaxMidOps == 1
\* largest quantity passed to updateItemQuantity in SpecTotal
MaxSetQty == 3
\* largest number of sale headers persisted in one behaviour of SpecSeq
MaxSeqSales == 2
\* largest stock a stock adjustment may produce
MaxStock == 3
\* headers stored in the specification of a checkout and its retries
MaxRetrySales == 2

----------------------------------------------------------------------------
(* Program constants *)

\* ticks per cent: the persisted money columns are DECIMAL(10,2)
CentTicks == 100
\* tax = subtotal * 0.08
TaxPercent == 8

Books == {"B1", "B2"}
\* an id no book has (getBookById returns undefined)
UnknownId == "BX"
BookIds == Books \cup {UnknownId}
Sessions == {"s1", "s2"}
Runs == {"r1", "r2"}

NoBook == [price |-> -1, stock |-> -1]
Undefined == "undefined"
Null == "null"

\* the catalog the sessions load: prices 10.00 and 25.99, stocks 1 and 2
SeedBooks ==
    [b \in BookIds |->
        CASE b = "B1" -> [price |-> 1000 * CentTicks, stock |-> 1]
          [] b = "B2" -> [price |-> 2599 * CentTicks, stock |-> 2]
          [] OTHER -> NoBook]

QtyArgs == (-1) .. MaxQty
DiscountArgs == {-5, 10, 150}
PaymentMethods == {"cash", "card"}
\* prices passed to updateBook: 10.00 and 12.00
PriceArgs == {1000 * CentTicks, 1200 * CentTicks}
\* signed quantities passed to updateStock on its own
DeltaArgs == {-2, -1, 2}
\* the number NaN, which is no integer: a value outside every range used here
NaN == -999999
\* numbers passed to setDiscount: below, inside and above the range, and NaN
NumericArgs == DiscountArgs \cup {NaN}
\* discounts of the range [0, 100] passed to setDiscount in SpecTotal
Discounts == {0, 10, 25, 100}

----------------------------------------------------------------------------
(* Helpers *)

Max(a, b) == IF a >= b THEN a ELSE b
Min(a, b) == IF a <= b THEN a ELSE b

RECURSIVE SumSubtotals(_)
\* items.reduce((sum, item) => sum + item.subtotal, 0)
SumSubtotals(items) ==
    IF items = <<>> THEN 0
    ELSE Head(items).subtotal + SumSubtotals(Tail(items))

\* Array.prototype.findIndex on bookId, 1-based; 0 when there is no such line
FindIndex(items, b) ==
    IF \E i \in 1..Len(items) : items[i].bookId = b
    THEN CHOOSE i \in 1..Len(items) :
            /\ items[i].bookId = b
            /\ \A j \in 1..(i - 1) : items[j].bookId # b
    ELSE 0

\* Array.prototype.splice(index, 1)
Splice(items, i) ==
    [j \in 1..(Len(items) - 1) |-> IF j < i THEN items[j] ELSE items[j + 1]]

\* booksStore.getBookById
getBookById(s, b) == books[s][b]

\* salesStore.getSaleById: the first sale of the collection with the id
getSaleById(s, id) ==
    IF \E i \in 1..Len(sales[s]) : sales[s][i].id = id
    THEN sales[s][CHOOSE i \in 1..Len(sales[s]) :
                    /\ sales[s][i].id = id
                    /\ \A j \in 1..(i - 1) : sales[s][j].id # id]
    ELSE Undefined

----------------------------------------------------------------------------
(* The draft sale *)

\* EmptySale with the payment method "card"
EmptySaleCard ==
    [items |-> <<>>, customerId |-> Undefined, paymentMethod |-> "card",
     discount |-> 0, notes |-> Undefined]

\* the draft clearCurrentSale assigns, and the store starts with
EmptySale ==
    [items |-> <<>>, customerId |-> Undefined, paymentMethod |-> "cash",
     discount |-> 0, notes |-> Undefined]

currentSaleSubtotal(s) == SumSubtotals(currentSale[s].items)

DiscountAmount(subtotal, discount) == (subtotal * discount) \div 100
TaxOf(subtotal) == (subtotal * TaxPercent) \div 100

\* TotalOf with the tax taken on the discounted subtotal
TotalOfTaxAfterDiscount(subtotal, discount) ==
    LET net == subtotal - DiscountAmount(subtotal, discount) IN
    net + TaxOf(net)

\* the locals of completeSale: total = subtotal - discountAmount + tax
TotalOf(subtotal, discount) ==
    subtotal - DiscountAmount(subtotal, discount) + TaxOf(subtotal)

\* the computed property currentSaleTotal
currentSaleTotal(s) ==
    LET subtotal == currentSaleSubtotal(s)
        discountAmount == (subtotal * currentSale[s].discount) \div 100
        tax == (subtotal * TaxPercent) \div 100
    IN subtotal - discountAmount + tax

\* AddItemThrows without the comparison with the stock
AddItemThrowsUnknownOnly(s, b, quantity) ==
    getBookById(s, b) = NoBook

\* the guard of addItemToCurrentSale: unknown book, or stock below the
\* quantity asked for in this call
AddItemThrows(s, b, quantity) ==
    \/ getBookById(s, b) = NoBook
    \/ getBookById(s, b).stock < quantity

\* AddItemLines with the merged line's subtotal left as it was
AddItemLinesStaleSubtotal(items, book, b, quantity) ==
    LET i == FindIndex(items, b) IN
    IF i # 0
    THEN [items EXCEPT ![i] = [@ EXCEPT !.quantity = @ + quantity]]
    ELSE Append(items, [bookId |-> b, price |-> book.price,
                        quantity |-> quantity,
                        subtotal |-> book.price * quantity])

\* the draft lines after a successful addItemToCurrentSale
AddItemLines(items, book, b, quantity) ==
    LET i == FindIndex(items, b) IN
    IF i # 0
    THEN [items EXCEPT ![i] =
            [@ EXCEPT !.quantity = @ + quantity,
                      !.subtotal = items[i].price * (items[i].quantity + quantity)]]
    ELSE Append(items, [bookId |-> b, price |-> book.price,
                        quantity |-> quantity,
                        subtotal |-> book.price * quantity])

RemoveItemLines(items, b) ==
    LET i == FindIndex(items, b) IN
    IF i # 0 THEN Splice(items, i) ELSE items

\* UpdateQuantityLines with the line's subtotal left as it was
UpdateQuantityLinesStaleSubtotal(items, b, quantity) ==
    LET i == FindIndex(items, b) IN
    IF i = 0 THEN items
    ELSE IF quantity <= 0 THEN RemoveItemLines(items, b)
    ELSE [items EXCEPT ![i] = [@ EXCEPT !.quantity = quantity]]

\* UpdateQuantityLines removing the line only for a quantity below 0
UpdateQuantityLinesZeroKept(items, b, quantity) ==
    LET i == FindIndex(items, b) IN
    IF i = 0 THEN items
    ELSE IF quantity < 0 THEN RemoveItemLines(items, b)
    ELSE [items EXCEPT ![i] =
            [@ EXCEPT !.quantity = quantity,
                      !.subtotal = items[i].price * quantity]]

\* the draft lines after updateItemQuantity
UpdateQuantityLines(items, b, quantity) ==
    LET i == FindIndex(items, b) IN
    IF i = 0 THEN items
    ELSE IF quantity <= 0 THEN RemoveItemLines(items, b)
    ELSE [items EXCEPT ![i] =
            [@ EXCEPT !.quantity = quantity,
                      !.subtotal = items[i].price * quantity]]

\* Math.min and Math.max: NaN if an argument is NaN
MathMin(a, b) == IF a = NaN \/ b = NaN THEN NaN ELSE Min(a, b)
MathMax(a, b) == IF a = NaN \/ b = NaN THEN NaN ELSE Max(a, b)

ClampDiscount(discount) == MathMax(0, MathMin(100, discount))

----------------------------------------------------------------------------
(* The persisted tables *)

\* a value sent to a DECIMAL(10,2) column is rounded to whole cents,
\* half away from zero
RoundCents(x) ==
    IF x >= 0
    THEN ((x + CentTicks \div 2) \div CentTicks) * CentTicks
    ELSE -((((-x) + CentTicks \div 2) \div CentTicks) * CentTicks)

\* the row the sales table stores for an insert payload
SaleRow(id, ins) ==
    [id |-> id, customer_id |-> ins.customer_id,
     total |-> RoundCents(ins.total), subtotal |-> RoundCents(ins.subtotal),
     tax |-> RoundCents(ins.tax), discount |-> ins.discount,
     payment_method |-> ins.payment_method]

\* CHECK constraints of table sales
SaleChecks(row) ==
    /\ row.total >= 0
    /\ row.subtotal >= 0
    /\ row.tax >= 0
    /\ row.discount >= 0

\* the row the sale_items table stores for an insert payload
ItemRow(it) ==
    [sale_id |-> it.sale_id, book_id |-> it.book_id, quantity |-> it.quantity,
     unit_price |-> RoundCents(it.unit_price),
     total_price |-> RoundCents(it.total_price)]

\* CHECK and FOREIGN KEY constraints of table sale_items
ItemChecks(row) ==
    /\ row.quantity > 0
    /\ row.unit_price >= 0
    /\ row.total_price >= 0
    /\ dbBooks[row.book_id] # NoBook
    /\ \E i \in 1..Len(dbSales) : dbSales[i].id = row.sale_id

\* NewSaleId giving the second row the id of the first
NewSaleIdReused == Max(1, Len(dbSales))

\* gen_random_uuid(): an id no earlier row has
NewSaleId == Len(dbSales) + 1

----------------------------------------------------------------------------
(* Activations of completeSale *)

NoSnap == [taken |-> FALSE]
NoUpdate == [id |-> UnknownId, stock |-> 0]
NoInsert ==
    [customer_id |-> Null, total |-> 0, subtotal |-> 0, tax |-> 0,
     discount |-> 0, payment_method |-> "cash"]

\* no Sale returned
NoSale ==
    [id |-> 0, customerId |-> Undefined, total |-> 0, subtotal |-> 0,
     tax |-> 0, discount |-> 0, paymentMethod |-> "cash", items |-> <<>>,
     notes |-> Undefined]

\* a slot with no call in progress and no result to look at
IdleRun ==
    [pc |-> "idle", sess |-> "s1", outcome |-> "none",
     subtotal |-> 0, tax |-> 0, total |-> 0,
     saleInsert |-> NoInsert, saleRow |-> 0, itemsRows |-> <<>>,
     live |-> TRUE, detached |-> <<>>, idx |-> 0, update |-> NoUpdate,
     result |-> NoSale, clean |-> TRUE, overlapped |-> FALSE, midOps |-> 0,
     snap |-> NoSnap, log |-> <<>>, read |-> 0, delta |-> 0, price |-> 0,
     paid |-> 0, refs |-> 0, rows |-> 0, limit |-> 0]

\* what another operation does to the history kept for a call: a finished
\* call's result is forgotten, a call in progress is no longer undisturbed
Disturbed(rec) ==
    IF rec.pc = "idle" THEN IdleRun
    ELSE [rec EXCEPT !.clean = FALSE, !.snap = NoSnap]

\* clearCurrentSale replaces the draft object: a stock loop of session s that
\* iterates the old items array keeps iterating that array
Detach(rec, s, oldItems) ==
    IF rec.pc = "stock" /\ rec.sess = s /\ rec.live
    THEN [rec EXCEPT !.live = FALSE, !.detached = oldItems]
    ELSE rec

\* the state at the moment completeSale is invoked
Snapshot(s) ==
    [taken |-> TRUE, sale |-> currentSale[s], books |-> books[s],
     dbBooks |-> dbBooks, sales |-> sales[s],
     nSales |-> Len(dbSales), nItems |-> Len(dbItems),
     loading |-> loading[s], error |-> error[s]]

----------------------------------------------------------------------------
(* Operations on the draft sale *)

\* every other call's history is marked by an operation that is not a step
\* of a completeSale call
MidOp(rec, s) ==
    IF rec.pc # "idle" /\ rec.sess = s
    THEN [rec EXCEPT !.midOps = @ + 1] ELSE rec

DisturbAll(s) == [q \in Runs |-> MidOp(Disturbed(run[q]), s)]

\* the bound on draft operations during a call
MidOpsLeft(s) ==
    \A q \in Runs :
        (run[q].pc # "idle" /\ run[q].sess = s) => run[q].midOps < MaxMidOps

LineQtyInBounds(items) ==
    \A i \in 1..Len(items) :
        items[i].quantity >= -MaxLineQty /\ items[i].quantity <= MaxLineQty

\* no draft operation has been called since the last step of a checkout
NoCall ==
    [op |-> "none", sess |-> "s1", bookId |-> UnknownId, quantity |-> 0,
     threw |-> FALSE, sale |-> EmptySale, books |-> SeedBooks,
     dbBooks |-> SeedBooks]

\* the call of a draft operation of session s: its arguments, whether it
\* threw, and the draft and the in-memory catalog it was called on
DraftCall(s, op, b, quantity, threw) ==
    [op |-> op, sess |-> s, bookId |-> b, quantity |-> quantity,
     threw |-> threw, sale |-> currentSale[s], books |-> books[s],
     dbBooks |-> dbBooks]

addItemToCurrentSale(s, b, quantity) ==
    /\ IF AddItemThrows(s, b, quantity)
       THEN /\ call' = DraftCall(s, "addItemToCurrentSale", b, quantity, TRUE)
            /\ UNCHANGED currentSale
       ELSE LET lines == AddItemLines(currentSale[s].items, getBookById(s, b),
                                      b, quantity) IN
            /\ LineQtyInBounds(lines)
            /\ currentSale' = [currentSale EXCEPT ![s].items = lines]
            /\ call' = DraftCall(s, "addItemToCurrentSale", b, quantity, FALSE)
    /\ MidOpsLeft(s)
    /\ run' = DisturbAll(s)
    /\ UNCHANGED <<authVars, dbBooks, dbSales, dbItems, books, sales, loading, error, booksFlags>>

removeItemFromCurrentSale(s, b) ==
    /\ currentSale' = [currentSale EXCEPT ![s].items = RemoveItemLines(@, b)]
    /\ call' = DraftCall(s, "removeItemFromCurrentSale", b, 0, FALSE)
    /\ MidOpsLeft(s)
    /\ run' = DisturbAll(s)
    /\ UNCHANGED <<authVars, dbBooks, dbSales, dbItems, books, sales, loading, error, booksFlags>>

updateItemQuantity(s, b, quantity) ==
    /\ currentSale' =
        [currentSale EXCEPT ![s].items = UpdateQuantityLines(@, b, quantity)]
    /\ call' = DraftCall(s, "updateItemQuantity", b, quantity, FALSE)
    /\ MidOpsLeft(s)
    /\ run' = DisturbAll(s)
    /\ UNCHANGED <<authVars, dbBooks, dbSales, dbItems, books, sales, loading, error, booksFlags>>

setCustomer(s, customerId) ==
    /\ currentSale' = [currentSale EXCEPT ![s].customerId = customerId]
    /\ call' = DraftCall(s, "setCustomer", UnknownId, 0, FALSE)
    /\ MidOpsLeft(s)
    /\ run' = DisturbAll(s)
    /\ UNCHANGED <<authVars, dbBooks, dbSales, dbItems, books, sales, loading, error, booksFlags>>

setPaymentMethod(s, method) ==
    /\ currentSale' = [currentSale EXCEPT ![s].paymentMethod = method]
    /\ call' = DraftCall(s, "setPaymentMethod", UnknownId, 0, FALSE)
    /\ MidOpsLeft(s)
    /\ run' = DisturbAll(s)
    /\ UNCHANGED <<authVars, dbBooks, dbSales, dbItems, books, sales, loading, error, booksFlags>>

setDiscount(s, discount) ==
    /\ currentSale' = [currentSale EXCEPT ![s].discount = ClampDiscount(discount)]
    /\ call' = DraftCall(s, "setDiscount", UnknownId, discount, FALSE)
    /\ MidOpsLeft(s)
    /\ run' = DisturbAll(s)
    /\ UNCHANGED <<authVars, dbBooks, dbSales, dbItems, books, sales, loading, error, booksFlags>>

setNotes(s, notes) ==
    /\ currentSale' = [currentSale EXCEPT ![s].notes = notes]
    /\ call' = DraftCall(s, "setNotes", UnknownId, 0, FALSE)
    /\ MidOpsLeft(s)
    /\ run' = DisturbAll(s)
    /\ UNCHANGED <<authVars, dbBooks, dbSales, dbItems, books, sales, loading, error, booksFlags>>

clearCurrentSale(s) ==
    /\ currentSale' = [currentSale EXCEPT ![s] = EmptySale]
    /\ call' = DraftCall(s, "clearCurrentSale", UnknownId, 0, FALSE)
    /\ MidOpsLeft(s)
    /\ run' = [q \in Runs |->
                MidOp(Disturbed(Detach(run[q], s, currentSale[s].items)), s)]
    /\ UNCHANGED <<authVars, dbBooks, dbSales, dbItems, books, sales, loading, error, booksFlags>>

----------------------------------------------------------------------------
(* booksStore.updateStock *)

\* NewStock with the quantity taken as the new stock
NewStockAbsolute(stock, quantity) == Max(0, quantity)

\* NewStock with the delta subtracted instead of added
NewStockSignSlip(stock, quantity) == Max(0, stock - quantity)

\* const newStock = Math.max(0, book.stock + quantity)
NewStock(stock, quantity) == Max(0, stock + quantity)

\* NextIndex taking the last such line instead of the first
NextIndexLast(items, mem, from) ==
    IF \E i \in from..Len(items) : mem[items[i].bookId] # NoBook
    THEN CHOOSE i \in from..Len(items) :
            /\ mem[items[i].bookId] # NoBook
            /\ \A j \in (i + 1)..Len(items) : mem[items[j].bookId] = NoBook
    ELSE 0

\* index of the first line at or after from whose book is in the in-memory
\* catalog (updateStock returns at once for any other line); 0 if none
NextIndex(items, mem, from) ==
    IF \E i \in from..Len(items) : mem[items[i].bookId] # NoBook
    THEN CHOOSE i \in from..Len(items) :
            /\ mem[items[i].bookId] # NoBook
            /\ \A j \in from..(i - 1) : mem[items[j].bookId] = NoBook
    ELSE 0

ErrUpdateBook == "Error al actualizar libro"
ErrSaleInsert == "sales insert error"
ErrItemsInsert == "sale_items insert error"
ErrDeleteBook == "Error al eliminar libro"
ErrDeleteReferenced == "No se puede eliminar el libro porque tiene ventas asociadas."

----------------------------------------------------------------------------
(* salesStore.completeSale *)

\* the insert payload for table sales, computed from the draft
SaleInsert(sale) ==
    LET subtotal == SumSubtotals(sale.items) IN
    [customer_id |-> IF sale.customerId = Undefined THEN Null ELSE sale.customerId,
     total |-> TotalOf(subtotal, sale.discount),
     subtotal |-> subtotal,
     tax |-> TaxOf(subtotal),
     discount |-> sale.discount,
     payment_method |-> sale.paymentMethod]

\* ItemsRows with the unit price read from the catalog
ItemsRowsCatalogPrice(saleId, items) ==
    [i \in 1..Len(items) |->
        [sale_id |-> saleId, book_id |-> items[i].bookId,
         quantity |-> items[i].quantity,
         unit_price |-> books["s1"][items[i].bookId].price,
         total_price |-> items[i].subtotal]]

\* the insert payload for table sale_items, computed from the draft lines
ItemsRows(saleId, items) ==
    [i \in 1..Len(items) |->
        [sale_id |-> saleId, book_id |-> items[i].bookId,
         quantity |-> items[i].quantity, unit_price |-> items[i].price,
         total_price |-> items[i].subtotal]]

\* NewSale without the draft's lines
NewSaleWithoutLines(rec, sale) ==
    [id |-> rec.saleRow, customerId |-> sale.customerId,
     total |-> rec.total, subtotal |-> rec.subtotal, tax |-> rec.tax,
     discount |-> sale.discount, paymentMethod |-> sale.paymentMethod,
     items |-> <<>>, notes |-> sale.notes]

\* const newSale: AppSale = { id: saleRow.id, ..., items: [...items] }
NewSale(rec, sale) ==
    [id |-> rec.saleRow, customerId |-> sale.customerId,
     total |-> rec.total, subtotal |-> rec.subtotal, tax |-> rec.tax,
     discount |-> sale.discount, paymentMethod |-> sale.paymentMethod,
     items |-> sale.items, notes |-> sale.notes]

\* index of the first line the stock loop visits
FirstLine == 1

RunsAfter(r, rec) == [q \in Runs |-> IF q = r THEN rec ELSE Disturbed(run[q])]

\* the stock loop from line `from` on, with the in-memory catalog mem and the
\* books store's flags as the step so far has left them: either the next
\* update is issued, or the loop is over and the sale is recorded
StockLoop(r, rec, mem, from, flags) ==
    LET s == rec.sess
        items == IF rec.live THEN currentSale[s].items ELSE rec.detached
        i == NextIndex(items, mem, from)
    IN
    IF i # 0
    THEN LET id == items[i].bookId IN
         /\ run' = RunsAfter(r,
                [rec EXCEPT !.pc = "stock", !.idx = i,
                    !.update = [id |-> id,
                                stock |-> NewStock(mem[id].stock, -items[i].quantity)],
                    !.log = Append(@, <<"issue", "stock", id>>)])
         /\ booksFlags' = [booksFlags EXCEPT ![s] = [loading |-> TRUE, error |-> Null]]
         /\ UNCHANGED <<currentSale, sales, loading>>
    ELSE LET newSale == NewSale(rec, currentSale[s]) IN
         /\ sales' = [sales EXCEPT ![s] = <<newSale>> \o @]
         /\ currentSale' = [currentSale EXCEPT ![s] = EmptySale]
         /\ loading' = [loading EXCEPT ![s] = FALSE]
         /\ booksFlags' = [booksFlags EXCEPT ![s] = flags]
         /\ run' = [q \in Runs |->
                IF q = r
                THEN [rec EXCEPT !.pc = "idle", !.outcome = "ok",
                          !.update = NoUpdate, !.result = newSale,
                          !.log = Append(@, <<"record", "sale", "-">>)]
                ELSE Disturbed(Detach(run[q], s, currentSale[s].items))]

\* the bound on persisted sale headers: fewer than n are stored or on their way
HeadersLeft(n) ==
    Len(dbSales) + Cardinality({q \in Runs : run[q].pc = "hdr"}) < n

\* completeSale with the error reset before the test for an empty draft
completeSaleResetsError(r, s) ==
    /\ run[r].pc = "idle"
    /\ error' = [error EXCEPT ![s] = Null]
    /\ IF currentSale[s].items = <<>>
       THEN /\ run' = RunsAfter(r, [IdleRun EXCEPT !.sess = s, !.outcome = "empty",
                                                  !.snap = Snapshot(s)])
            /\ UNCHANGED loading
       ELSE /\ loading' = [loading EXCEPT ![s] = TRUE]
            /\ LET ins == SaleInsert(currentSale[s]) IN
               run' = RunsAfter(r,
                    [IdleRun EXCEPT !.pc = "hdr", !.sess = s,
                            !.subtotal = ins.subtotal, !.tax = ins.tax,
                            !.total = ins.total, !.saleInsert = ins,
                            !.snap = Snapshot(s),
                            !.log = <<<<"issue", "sales", "-">>>>])
    /\ call' = NoCall
    /\ UNCHANGED <<authVars, dbBooks, dbSales, dbItems, books, currentSale, sales, booksFlags>>

\* completeSale up to its first await: an empty draft throws at once,
\* otherwise the header insert is issued
completeSale(r, s) ==
    /\ run[r].pc = "idle"
    /\ IF currentSale[s].items = <<>>
       THEN /\ run' = RunsAfter(r, [IdleRun EXCEPT !.sess = s, !.outcome = "empty",
                                                  !.snap = Snapshot(s)])
            /\ UNCHANGED <<loading, error>>
       ELSE /\ loading' = [loading EXCEPT ![s] = TRUE]
            /\ error' = [error EXCEPT ![s] = Null]
            /\ LET ins == SaleInsert(currentSale[s]) IN
               run' = [q \in Runs |->
                    IF q = r
                    THEN [IdleRun EXCEPT !.pc = "hdr", !.sess = s,
                            !.subtotal = ins.subtotal, !.tax = ins.tax,
                            !.total = ins.total, !.saleInsert = ins,
                            !.overlapped = \E o \in Runs : run[o].pc # "idle",
                            !.snap = Snapshot(s),
                            !.log = <<<<"issue", "sales", "-">>>>]
                    ELSE IF run[q].pc # "idle"
                    THEN [Disturbed(run[q]) EXCEPT !.overlapped = TRUE]
                    ELSE IdleRun]
    /\ call' = NoCall
    /\ UNCHANGED <<authVars, dbBooks, dbSales, dbItems, books, currentSale, sales, booksFlags>>

\* the header insert succeeds; completeSale runs on to its next await
HeaderInserted(r) ==
    LET rec == run[r]
        s == rec.sess
        row == SaleRow(NewSaleId, rec.saleInsert)
        rows == ItemsRows(row.id, currentSale[s].items)
        rec1 == [rec EXCEPT !.saleRow = row.id,
                            !.log = Append(@, <<"done", "sales", "-">>)]
    IN
    /\ rec.pc = "hdr"
    /\ SaleChecks(row)
    /\ dbSales' = Append(dbSales, row)
    /\ IF Len(rows) > 0
       THEN /\ run' = RunsAfter(r,
                [rec1 EXCEPT !.pc = "items", !.itemsRows = rows,
                             !.log = Append(@, <<"issue", "sale_items", "-">>)])
            /\ UNCHANGED <<currentSale, sales, loading, booksFlags>>
       ELSE StockLoop(r, rec1, books[s], FirstLine, booksFlags[s])
    /\ call' = NoCall
    /\ UNCHANGED <<authVars, dbBooks, dbItems, books, error>>

\* Failed with the draft cleared on the way out
FailedClearsDraft(r, outcome, message) ==
    LET rec == run[r]
        s == rec.sess
    IN
    /\ error' = [error EXCEPT ![s] = message]
    /\ loading' = [loading EXCEPT ![s] = FALSE]
    /\ run' = RunsAfter(r,
            [rec EXCEPT !.pc = "idle", !.outcome = outcome, !.update = NoUpdate,
                        !.log = Append(@, <<"fail", outcome, "-">>)])
    /\ currentSale' = [currentSale EXCEPT ![s] = EmptySale]
    /\ UNCHANGED sales

\* Failed with loading left set
FailedKeepsLoading(r, outcome, message) ==
    LET rec == run[r]
        s == rec.sess
    IN
    /\ error' = [error EXCEPT ![s] = message]
    /\ UNCHANGED loading
    /\ run' = RunsAfter(r,
            [rec EXCEPT !.pc = "idle", !.outcome = outcome, !.update = NoUpdate,
                        !.log = Append(@, <<"fail", outcome, "-">>)])
    /\ UNCHANGED <<currentSale, sales>>

\* catch / finally of completeSale: the error is stored and rethrown, the
\* draft and the sales collection are left alone
Failed(r, outcome, message) ==
    LET rec == run[r]
        s == rec.sess
    IN
    /\ error' = [error EXCEPT ![s] = message]
    /\ loading' = [loading EXCEPT ![s] = FALSE]
    /\ run' = RunsAfter(r,
            [rec EXCEPT !.pc = "idle", !.outcome = outcome, !.update = NoUpdate,
                        !.log = Append(@, <<"fail", outcome, "-">>)])
    /\ UNCHANGED <<currentSale, sales>>

\* the header insert fails (transport, permission or constraint)
HeaderFailed(r) ==
    /\ run[r].pc = "hdr"
    /\ Failed(r, "sales", ErrSaleInsert)
    /\ call' = NoCall
    /\ UNCHANGED <<authVars, dbBooks, dbSales, dbItems, books, booksFlags>>

\* the line-item insert succeeds; the stock loop starts
ItemsInserted(r) ==
    LET rec == run[r]
        s == rec.sess
        rows == [i \in 1..Len(rec.itemsRows) |-> ItemRow(rec.itemsRows[i])]
    IN
    /\ rec.pc = "items"
    /\ \A i \in 1..Len(rows) : ItemChecks(rows[i])
    /\ dbItems' = dbItems \o rows
    /\ StockLoop(r,
            [rec EXCEPT !.itemsRows = <<>>, !.live = TRUE,
                        !.log = Append(@, <<"done", "sale_items", "-">>)],
            books[s], FirstLine, booksFlags[s])
    /\ call' = NoCall
    /\ UNCHANGED <<authVars, dbBooks, dbSales, books, error>>

\* ItemsFailed with a compensating delete of the header
ItemsFailedCompensates(r) ==
    /\ run[r].pc = "items"
    /\ Failed(r, "sale_items", ErrItemsInsert)
    /\ dbSales' = SelectSeq(dbSales, LAMBDA row : row.id # run[r].saleRow)
    /\ call' = NoCall
    /\ UNCHANGED <<authVars, dbBooks, dbItems, books, booksFlags>>

\* the line-item insert fails: no row of it is stored
ItemsFailed(r) ==
    /\ run[r].pc = "items"
    /\ Failed(r, "sale_items", ErrItemsInsert)
    /\ call' = NoCall
    /\ UNCHANGED <<authVars, dbBooks, dbSales, dbItems, books, booksFlags>>

\* StockUpdated with the in-memory book left as it was
StockUpdatedKeepsMemory(r) ==
    LET rec == run[r]
        s == rec.sess
        id == rec.update.id
        row == [dbBooks[id] EXCEPT !.stock = rec.update.stock]
    IN
    /\ rec.pc = "stock"
    /\ dbBooks[id] # NoBook
    /\ row.stock >= 0
    /\ dbBooks' = [dbBooks EXCEPT ![id] = row]
    /\ StockLoop(r,
            [rec EXCEPT !.log = Append(@, <<"done", "stock", id>>)],
            books[s], rec.idx + 1, [loading |-> FALSE, error |-> Null])
    /\ call' = NoCall
    /\ UNCHANGED <<authVars, dbSales, dbItems, books, error>>

\* updateBook succeeds for the line at idx: the row is stored, the in-memory
\* book is replaced by the returned row, and the loop goes on
StockUpdated(r) ==
    LET rec == run[r]
        s == rec.sess
        id == rec.update.id
        row == [dbBooks[id] EXCEPT !.stock = rec.update.stock]
        mem == IF books[s][id] # NoBook
               THEN [books[s] EXCEPT ![id] = row] ELSE books[s]
    IN
    /\ rec.pc = "stock"
    /\ dbBooks[id] # NoBook
    /\ row.stock >= 0
    /\ dbBooks' = [dbBooks EXCEPT ![id] = row]
    /\ books' = [books EXCEPT ![s] = mem]
    /\ StockLoop(r,
            [rec EXCEPT !.log = Append(@, <<"done", "stock", id>>)],
            mem, rec.idx + 1, [loading |-> FALSE, error |-> Null])
    /\ call' = NoCall
    /\ UNCHANGED <<authVars, dbSales, dbItems, error>>

\* StockFailed with the sale recorded in memory all the same
StockFailedRecordsSale(r) ==
    LET s == run[r].sess IN
    /\ run[r].pc = "stock"
    /\ booksFlags' = [booksFlags EXCEPT ![s] =
                        [loading |-> FALSE, error |-> ErrUpdateBook]]
    /\ error' = [error EXCEPT ![s] = ErrUpdateBook]
    /\ loading' = [loading EXCEPT ![s] = FALSE]
    /\ run' = RunsAfter(r,
            [run[r] EXCEPT !.pc = "idle", !.outcome = "stock", !.update = NoUpdate,
                           !.log = Append(@, <<"fail", "stock", "-">>)])
    /\ sales' = [sales EXCEPT ![s] = <<NewSale(run[r], currentSale[s])>> \o @]
    /\ call' = NoCall
    /\ UNCHANGED <<authVars, dbBooks, dbSales, dbItems, books, currentSale>>

\* updateBook fails for the line at idx: updateStock and completeSale rethrow
StockFailed(r) ==
    LET s == run[r].sess IN
    /\ run[r].pc = "stock"
    /\ booksFlags' = [booksFlags EXCEPT ![s] =
                        [loading |-> FALSE, error |-> ErrUpdateBook]]
    /\ Failed(r, "stock", ErrUpdateBook)
    /\ call' = NoCall
    /\ UNCHANGED <<authVars, dbBooks, dbSales, dbItems, books>>

----------------------------------------------------------------------------
(* booksStore.updateStock called on its own *)

\* updateStock storing an error for a book that is not in memory
updateStockAbsentIsError(r, s, id, quantity) ==
    /\ run[r].pc = "idle"
    /\ IF books[s][id] = NoBook
       THEN /\ run' = RunsAfter(r,
                    [IdleRun EXCEPT !.sess = s, !.outcome = "absent",
                                    !.delta = quantity, !.snap = Snapshot(s)])
            /\ booksFlags' = [booksFlags EXCEPT ![s].error = ErrUpdateBook]
       ELSE LET newStock == NewStock(books[s][id].stock, quantity) IN
            /\ newStock <= MaxStock
            /\ run' = RunsAfter(r,
                    [IdleRun EXCEPT !.pc = "adjust", !.sess = s,
                                    !.update = [id |-> id, stock |-> newStock],
                                    !.read = books[s][id].stock,
                                    !.delta = quantity])
            /\ booksFlags' = [booksFlags EXCEPT ![s] =
                                [loading |-> TRUE, error |-> Null]]
    /\ call' = NoCall
    /\ UNCHANGED <<authVars, dbBooks, dbSales, dbItems, books, currentSale, sales,
                   loading, error>>

\* updateStock up to its await: a book that is not in memory ends the call
\* at once, otherwise the new stock is computed from the in-memory stock and
\* updateBook issues the update
updateStock(r, s, id, quantity) ==
    /\ run[r].pc = "idle"
    /\ IF books[s][id] = NoBook
       THEN /\ run' = RunsAfter(r,
                    [IdleRun EXCEPT !.sess = s, !.outcome = "absent",
                                    !.delta = quantity, !.snap = Snapshot(s)])
            /\ UNCHANGED booksFlags
       ELSE LET newStock == NewStock(books[s][id].stock, quantity) IN
            /\ newStock <= MaxStock
            /\ run' = RunsAfter(r,
                    [IdleRun EXCEPT !.pc = "adjust", !.sess = s,
                                    !.update = [id |-> id, stock |-> newStock],
                                    !.read = books[s][id].stock,
                                    !.delta = quantity])
            /\ booksFlags' = [booksFlags EXCEPT ![s] =
                                [loading |-> TRUE, error |-> Null]]
    /\ call' = NoCall
    /\ UNCHANGED <<authVars, dbBooks, dbSales, dbItems, books, currentSale, sales,
                   loading, error>>

\* updateBook succeeds: the row is stored and replaces the in-memory book
StockAdjusted(r) ==
    LET rec == run[r]
        s == rec.sess
        id == rec.update.id
        row == [dbBooks[id] EXCEPT !.stock = rec.update.stock]
    IN
    /\ rec.pc = "adjust"
    /\ dbBooks[id] # NoBook
    /\ row.stock >= 0
    /\ dbBooks' = [dbBooks EXCEPT ![id] = row]
    /\ books' = [books EXCEPT ![s] =
                    IF @[id] # NoBook THEN [@ EXCEPT ![id] = row] ELSE @]
    /\ booksFlags' = [booksFlags EXCEPT ![s] =
                        [loading |-> FALSE, error |-> Null]]
    /\ run' = RunsAfter(r, [rec EXCEPT !.pc = "idle", !.outcome = "adjusted"])
    /\ call' = NoCall
    /\ UNCHANGED <<authVars, dbSales, dbItems, currentSale, sales, loading, error>>

\* updateBook fails: both catch blocks store the message and rethrow
AdjustFailed(r) ==
    LET rec == run[r]
        s == rec.sess
    IN
    /\ rec.pc = "adjust"
    /\ booksFlags' = [booksFlags EXCEPT ![s] =
                        [loading |-> FALSE, error |-> ErrUpdateBook]]
    /\ run' = RunsAfter(r, [rec EXCEPT !.pc = "idle", !.outcome = "adjust_failed"])
    /\ call' = NoCall
    /\ UNCHANGED <<authVars, dbBooks, dbSales, dbItems, books, currentSale, sales,
                   loading, error>>

----------------------------------------------------------------------------
(* booksStore.updateBook called with a new price *)

\* updateBook up to its await: the update of the price is issued
updateBook(r, s, id, price) ==
    /\ run[r].pc = "idle"
    /\ run' = RunsAfter(r,
            [IdleRun EXCEPT !.pc = "price", !.sess = s,
                            !.update = [id |-> id, stock |-> 0],
                            !.price = price])
    /\ booksFlags' = [booksFlags EXCEPT ![s] = [loading |-> TRUE, error |-> Null]]
    /\ call' = NoCall
    /\ UNCHANGED <<authVars, dbBooks, dbSales, dbItems, books, currentSale, sales,
                   loading, error>>

\* the update succeeds: the row is stored with the price in whole cents and
\* replaces the in-memory book
BookUpdated(r) ==
    LET rec == run[r]
        s == rec.sess
        id == rec.update.id
        row == [dbBooks[id] EXCEPT !.price = RoundCents(rec.price)]
    IN
    /\ rec.pc = "price"
    /\ dbBooks[id] # NoBook
    /\ row.price >= 0
    /\ dbBooks' = [dbBooks EXCEPT ![id] = row]
    /\ books' = [books EXCEPT ![s] =
                    IF @[id] # NoBook THEN [@ EXCEPT ![id] = row] ELSE @]
    /\ booksFlags' = [booksFlags EXCEPT ![s] =
                        [loading |-> FALSE, error |-> Null]]
    /\ run' = RunsAfter(r, [rec EXCEPT !.pc = "idle", !.outcome = "updated"])
    /\ call' = NoCall
    /\ UNCHANGED <<authVars, dbSales, dbItems, currentSale, sales, loading, error>>

\* the update fails: the message is stored and the error rethrown
BookUpdateFailed(r) ==
    LET rec == run[r]
        s == rec.sess
    IN
    /\ rec.pc = "price"
    /\ booksFlags' = [booksFlags EXCEPT ![s] =
                        [loading |-> FALSE, error |-> ErrUpdateBook]]
    /\ run' = RunsAfter(r, [rec EXCEPT !.pc = "idle", !.outcome = "update_failed"])
    /\ call' = NoCall
    /\ UNCHANGED <<authVars, dbBooks, dbSales, dbItems, books, currentSale, sales,
                   loading, error>>

----------------------------------------------------------------------------
(* booksStore.deleteBook *)

\* the sale_items rows that reference book id
ReferencingItems(id) == SelectSeq(dbItems, LAMBDA row : row.book_id = id)

\* deleteBook up to its await: the delete is issued
deleteBook(r, s, id) ==
    /\ run[r].pc = "idle"
    /\ run' = RunsAfter(r,
            [IdleRun EXCEPT !.pc = "delete", !.sess = s,
                            !.update = [id |-> id, stock |-> 0]])
    /\ booksFlags' = [booksFlags EXCEPT ![s] = [loading |-> TRUE, error |-> Null]]
    /\ call' = NoCall
    /\ UNCHANGED <<authVars, dbBooks, dbSales, dbItems, books, currentSale, sales,
                   loading, error>>

\* the delete succeeds.  Table sale_items is created with
\* book_id REFERENCES books(id) ON DELETE CASCADE: the rows that reference
\* the book are deleted with it.  The book is then spliced out of the
\* in-memory catalog.
BookDeleted(r) ==
    LET rec == run[r]
        s == rec.sess
        id == rec.update.id
    IN
    /\ rec.pc = "delete"
    /\ dbBooks' = [dbBooks EXCEPT ![id] = NoBook]
    /\ dbItems' = SelectSeq(dbItems, LAMBDA row : row.book_id # id)
    /\ books' = [books EXCEPT ![s][id] = NoBook]
    /\ booksFlags' = [booksFlags EXCEPT ![s] =
                        [loading |-> FALSE, error |-> Null]]
    /\ run' = RunsAfter(r,
            [rec EXCEPT !.pc = "idle", !.outcome = "deleted",
                        !.refs = Len(ReferencingItems(id)),
                        !.rows = Len(dbItems)])
    /\ call' = NoCall
    /\ UNCHANGED <<authVars, dbSales, currentSale, sales, loading, error>>

\* the delete fails: a foreign-key violation (code 23503) where the deployed
\* constraint has no ON DELETE action, as in the dump of the schema, and the
\* book is referenced; or a permission or transport error
BookDeleteFailed(r) ==
    LET rec == run[r]
        s == rec.sess
        id == rec.update.id
    IN
    /\ rec.pc = "delete"
    /\ booksFlags' = [booksFlags EXCEPT ![s] =
            [loading |-> FALSE,
             error |-> IF Len(ReferencingItems(id)) > 0
                       THEN ErrDeleteReferenced ELSE ErrDeleteBook]]
    /\ run' = RunsAfter(r,
            [rec EXCEPT !.pc = "idle", !.outcome = "delete_failed",
                        !.refs = Len(ReferencingItems(id)),
                        !.rows = Len(dbItems)])
    /\ call' = NoCall
    /\ UNCHANGED <<authVars, dbBooks, dbSales, dbItems, books, currentSale, sales,
                   loading, error>>

----------------------------------------------------------------------------
(* booksStore.loadBooks *)

ErrLoadBooks == "Error al cargar libros"
\* page sizes passed to loadBooks: smaller than the table, and the whole table
LimitArgs == {1, 2}

\* the books stored in table books
StoredBooks == {b \in Books : dbBooks[b] # NoBook}

\* the pages a select of limit rows from offset 0 can return; the rows are
\* ordered by created_at, which rows inserted by one statement share
Pages(limit) ==
    {P \in SUBSET StoredBooks : Cardinality(P) = Min(limit, Cardinality(StoredBooks))}

\* the in-memory catalog after a load from offset 0: the page replaces it
CatalogLoaded(mem, P) ==
    [b \in Books |-> IF b \in P THEN dbBooks[b] ELSE NoBook]

\* loadBooks up to its await: the select is issued
loadBooks(r, s, limit) ==
    /\ run[r].pc = "idle"
    /\ run' = RunsAfter(r, [IdleRun EXCEPT !.pc = "load", !.sess = s,
                                           !.limit = limit])
    /\ booksFlags' = [booksFlags EXCEPT ![s] = [loading |-> TRUE, error |-> Null]]
    /\ call' = NoCall
    /\ UNCHANGED <<authVars, dbBooks, dbSales, dbItems, books, currentSale, sales,
                   loading, error>>

\* the select succeeds: the page becomes the in-memory catalog
BooksLoaded(r) ==
    LET rec == run[r]
        s == rec.sess
    IN
    /\ rec.pc = "load"
    /\ \E P \in Pages(rec.limit) :
            books' = [books EXCEPT ![s] = CatalogLoaded(@, P)]
    /\ booksFlags' = [booksFlags EXCEPT ![s].loading = FALSE]
    /\ run' = RunsAfter(r, [rec EXCEPT !.pc = "idle", !.outcome = "loaded"])
    /\ call' = NoCall
    /\ UNCHANGED <<authVars, dbBooks, dbSales, dbItems, currentSale, sales,
                   loading, error>>

\* the select fails: the message is stored, the catalog is left alone and
\* nothing is rethrown
BooksLoadFailed(r) ==
    LET rec == run[r]
        s == rec.sess
    IN
    /\ rec.pc = "load"
    /\ booksFlags' = [booksFlags EXCEPT ![s] =
                        [loading |-> FALSE, error |-> ErrLoadBooks]]
    /\ run' = RunsAfter(r, [rec EXCEPT !.pc = "idle", !.outcome = "load_failed"])
    /\ call' = NoCall
    /\ UNCHANGED <<authVars, dbBooks, dbSales, dbItems, books, currentSale, sales,
                   loading, error>>

----------------------------------------------------------------------------
(* The point-of-sale screen's checkout: completeSale of NoAccess.vue *)

\* total = subtotal + tax, as the screen computes it (no discount)
ScreenTotal(s) ==
    currentSaleSubtotal(s) + (currentSaleSubtotal(s) * TaxPercent) \div 100

\* canCompleteSale
ScreenGuard(s, amountPaid) ==
    /\ Len(currentSale[s].items) > 0
    /\ amountPaid >= ScreenTotal(s)

\* Math.ceil(total): the next whole currency unit
CeilUnit(x) ==
    LET unit == 100 * CentTicks IN ((x + unit - 1) \div unit) * unit

\* amounts the cashier enters: nothing, the total shown, the total rounded
\* up to a whole unit
AmountArgs(s) == {0, ScreenTotal(s), CeilUnit(ScreenTotal(s))}

\* the screen's completeSale up to the store's first await: when
\* canCompleteSale is false it alerts and returns; otherwise it sets the
\* customer, the payment method and empty notes, and calls the store's
\* completeSale, which issues the header insert
ScreenCompleteSale(r, s, amountPaid, customerId, method) ==
    /\ run[r].pc = "idle"
    /\ IF ~ScreenGuard(s, amountPaid)
       THEN /\ run' = RunsAfter(r,
                    [IdleRun EXCEPT !.sess = s, !.outcome = "alert",
                                    !.paid = amountPaid, !.snap = Snapshot(s)])
            /\ UNCHANGED <<currentSale, loading, error>>
       ELSE LET sale == [currentSale[s] EXCEPT !.customerId = customerId,
                                               !.paymentMethod = method,
                                               !.notes = ""]
                ins == SaleInsert(sale)
            IN
            /\ currentSale' = [currentSale EXCEPT ![s] = sale]
            /\ loading' = [loading EXCEPT ![s] = TRUE]
            /\ error' = [error EXCEPT ![s] = Null]
            /\ run' = RunsAfter(r,
                    [IdleRun EXCEPT !.pc = "hdr", !.sess = s,
                            !.subtotal = ins.subtotal, !.tax = ins.tax,
                            !.total = ins.total, !.saleInsert = ins,
                            !.paid = amountPaid,
                            !.snap = [Snapshot(s) EXCEPT !.sale = sale],
                            !.log = <<<<"issue", "sales", "-">>>>])
    /\ call' = NoCall
    /\ UNCHANGED <<authVars, dbBooks, dbSales, dbItems, books, sales, booksFlags>>

----------------------------------------------------------------------------
(* Row level security of the four tables *)

Users == {"u1", "u2"}
\* the user the script lists as administrator
SeedAdmin == "u1"
\* auth.uid() of a request: a signed-in user, or Null for an anonymous one
Callers == Users \cup {Null}
Tables == {"books", "customers", "sales", "sale_items"}
Customers == {"K1", "K2"}
\* the customers the schema script stores
SeedCustomers == {"K1"}
PermissiveName == "Enable all operations for authenticated users"
AdminName(t) == <<"admins_all", t>>

\* is_admin() for the caller of the request
is_admin(uid) == uid \in admins

\* the policies supabase-schema.sql creates: FOR ALL USING (true)
SchemaPolicies ==
    {[name |-> PermissiveName, table |-> t, using |-> "true", check |-> "true"]
        : t \in Tables}

DropPolicy(ps, name, t) == {p \in ps : ~(p.name = name /\ p.table = t)}

RECURSIVE DropAll(_, _, _)
DropAll(ps, name, ts) ==
    IF ts = {} THEN ps
    ELSE LET t == CHOOSE x \in ts : TRUE IN
         DropAll(DropPolicy(ps, name, t), name, ts \ {t})

AdminPolicies ==
    {[name |-> AdminName(t), table |-> t, using |-> "is_admin",
      check |-> "is_admin"] : t \in Tables}

\* Policies with the permissive policies of the schema left in place
PoliciesPermissiveKept == SchemaPolicies \cup AdminPolicies

\* the policies in force once add-admins-rls.sql has run on the schema
Policies == DropAll(SchemaPolicies, PermissiveName, Tables) \cup AdminPolicies

PolicyExpr(e, uid) == IF e = "true" THEN TRUE ELSE is_admin(uid)

\* permissive policies of a table are combined with OR; none means no access
Passes(t, uid, clause) ==
    \E p \in Policies : p.table = t /\ PolicyExpr(p[clause], uid)

RowCount(t) ==
    CASE t = "books" -> Cardinality({b \in Books : dbBooks[b] # NoBook})
      [] t = "customers" -> Cardinality(dbCustomers)
      [] t = "sales" -> Len(dbSales)
      [] t = "sale_items" -> Len(dbItems)

NoRequest ==
    [cmd |-> "none", table |-> "-", caller |-> Null, admin |-> FALSE,
     rows |-> 0, error |-> Null]

ErrRls == "42501"

Request(cmd, t, uid, rows, err) ==
    [cmd |-> cmd, table |-> t, caller |-> uid, admin |-> is_admin(uid),
     rows |-> rows, error |-> err]

\* the draft a direct insert of a sale carries: one unit of a seed book
DirectSale ==
    [EmptySale EXCEPT !.items = AddItemLines(<<>>, SeedBooks["B1"], "B1", 1)]

\* SELECT on a table: the rows the USING clause lets through
SelectRows(uid, t) ==
    /\ request' = Request("select", t, uid,
                          IF Passes(t, uid, "using") THEN RowCount(t) ELSE 0,
                          Null)
    /\ UNCHANGED <<storeVars, admins, dbCustomers, client, authStore, task>>

\* INSERT into customers: refused unless WITH CHECK passes
InsertCustomer(uid, k) ==
    /\ k \notin dbCustomers
    /\ IF Passes("customers", uid, "check")
       THEN /\ dbCustomers' = dbCustomers \cup {k}
            /\ request' = Request("insert", "customers", uid, 1, Null)
       ELSE /\ request' = Request("insert", "customers", uid, 0, ErrRls)
            /\ UNCHANGED dbCustomers
    /\ UNCHANGED <<storeVars, admins, client, authStore, task>>

\* DELETE from customers: only rows the USING clause lets through;
\* sales.customer_id is ON DELETE SET NULL
DeleteCustomer(uid, k) ==
    /\ IF Passes("customers", uid, "using") /\ k \in dbCustomers
       THEN /\ dbCustomers' = dbCustomers \ {k}
            /\ dbSales' = [i \in 1..Len(dbSales) |->
                             IF dbSales[i].customer_id = k
                             THEN [dbSales[i] EXCEPT !.customer_id = Null]
                             ELSE dbSales[i]]
            /\ request' = Request("delete", "customers", uid, 1, Null)
       ELSE /\ request' = Request("delete", "customers", uid, 0, Null)
            /\ UNCHANGED <<dbCustomers, dbSales>>
    /\ UNCHANGED <<dbBooks, dbItems, books, currentSale, sales, loading, error,
                   booksFlags, run, call, admins, client, authStore, task>>

\* UPDATE of a book's price: only rows the USING clause lets through
UpdateBookRow(uid, id, price) ==
    /\ IF Passes("books", uid, "using") /\ Passes("books", uid, "check")
          /\ dbBooks[id] # NoBook
       THEN /\ dbBooks' = [dbBooks EXCEPT ![id].price = RoundCents(price)]
            /\ request' = Request("update", "books", uid, 1, Null)
       ELSE /\ request' = Request("update", "books", uid, 0, Null)
            /\ UNCHANGED dbBooks
    /\ UNCHANGED <<dbSales, dbItems, books, currentSale, sales, loading, error,
                   booksFlags, run, call, admins, dbCustomers, client,
                   authStore, task>>

\* INSERT into sales: refused unless WITH CHECK passes
InsertSaleRow(uid) ==
    /\ Len(dbSales) < MaxSales
    /\ IF Passes("sales", uid, "check")
       THEN /\ dbSales' = Append(dbSales, SaleRow(NewSaleId, SaleInsert(DirectSale)))
            /\ request' = Request("insert", "sales", uid, 1, Null)
       ELSE /\ request' = Request("insert", "sales", uid, 0, ErrRls)
            /\ UNCHANGED dbSales
    /\ UNCHANGED <<dbBooks, dbItems, books, currentSale, sales, loading, error,
                   booksFlags, run, call, admins, dbCustomers, client,
                   authStore, task>>

\* DELETE from sale_items: only rows the USING clause lets through
DeleteSaleItems(uid) ==
    /\ IF Passes("sale_items", uid, "using")
       THEN /\ dbItems' = <<>>
            /\ request' = Request("delete", "sale_items", uid, Len(dbItems), Null)
       ELSE /\ request' = Request("delete", "sale_items", uid, 0, Null)
            /\ UNCHANGED dbItems
    /\ UNCHANGED <<dbBooks, dbSales, books, currentSale, sales, loading, error,
                   booksFlags, run, call, admins, dbCustomers, client,
                   authStore, task>>

\* INSERT into sale_items for the first sale: refused unless WITH CHECK passes
InsertSaleItems(uid) ==
    /\ Len(dbSales) >= 1
    /\ dbItems = <<>>
    /\ IF Passes("sale_items", uid, "check")
       THEN /\ dbItems' = [i \in 1..Len(DirectSale.items) |->
                              ItemRow(ItemsRows(dbSales[1].id, DirectSale.items)[i])]
            /\ request' = Request("insert", "sale_items", uid,
                                  Len(DirectSale.items), Null)
       ELSE /\ request' = Request("insert", "sale_items", uid, 0, ErrRls)
            /\ UNCHANGED dbItems
    /\ UNCHANGED <<dbBooks, dbSales, books, currentSale, sales, loading, error,
                   booksFlags, run, call, admins, dbCustomers, client,
                   authStore, task>>

\* a user is listed in table admins
InsertAdmin(u) ==
    /\ u \notin admins
    /\ admins' = admins \cup {u}
    /\ request' = NoRequest
    /\ UNCHANGED <<storeVars, dbCustomers, client, authStore, task>>

\* a user's row is removed from table admins
DeleteAdmin(u) ==
    /\ u \in admins
    /\ admins' = admins \ {u}
    /\ request' = NoRequest
    /\ UNCHANGED <<storeVars, dbCustomers, client, authStore, task>>

----------------------------------------------------------------------------
(* The auth store *)

\* the refs of the auth store as the store is created; session stands for
\* session and user, which are always assigned together
InitialAuthStore ==
    [session |-> Null, isAdmin |-> Null, initialized |-> FALSE,
     loading |-> FALSE, error |-> Null]

\* the activations around the auth store: the mount hook of the application,
\* a navigation through the router guard, login, logout and one activation
\* of the auth-state-change listener
Tasks == {"mount", "guard", "login", "logout", "listener"}

IdleTask ==
    [pc |-> "idle", to |-> "-", uid |-> Null, result |-> "-",
     authenticated |-> FALSE, isAdmin |-> Null]

\* the Supabase client as the page loads: the session kept from an earlier
\* visit if any, no listener registered, the session not read yet
InitialClient(u) == [user |-> u, subs |-> 0, reads |-> 0]

Routes == {"no-access", "login", "sales"}
\* meta.requiresAuth of the route
RequiresAuth(to) == to = "sales"

\* the values of the ref isAdmin besides null
Yes == "true"
No == "false"
Flag(b) == IF b THEN Yes ELSE No

ErrInitAuth == "Error inicializando autenticación"
ErrLogin == "Error al iniciar sesión"
ErrLogout == "Error al cerrar sesión"

\* isAuthenticated of a store value
IsAuthenticated(st) == st.session # Null

\* the guard from line 29 on, for the store as it is: the route it returns,
\* or "await" where it calls fetchAdmin first
GuardChecks(st, to) ==
    IF RequiresAuth(to) /\ ~IsAuthenticated(st) THEN "login"
    ELSE IF RequiresAuth(to) /\ st.isAdmin = Null THEN "await"
    ELSE IF RequiresAuth(to) /\ st.isAdmin = No THEN "no-access"
    ELSE IF to = "login" /\ IsAuthenticated(st)
         THEN (IF st.isAdmin = No THEN "no-access" ELSE "home")
    ELSE "admit"

\* the guard from line 39 on, after its fetchAdmin; the route requires auth
\* and the session was authenticated at line 35
GuardTail(st, to) ==
    IF st.isAdmin = No THEN "no-access" ELSE "admit"

\* the guard returns: the route, and the store as it is at that moment
Returned(rec, st, route) ==
    [rec EXCEPT !.pc = "idle", !.uid = Null, !.result = route,
                !.authenticated = IsAuthenticated(st), !.isAdmin = st.isAdmin]

\* the guard goes on from line 29 once the store is initialized
GuardGoesOn(rec, st) ==
    LET route == GuardChecks(st, rec.to) IN
    IF route = "await"
    THEN [rec EXCEPT !.pc = "admin", !.uid = client.user]
    ELSE Returned(rec, st, route)

\* the end of initAuth's try block and its finally: the listener is
\* registered and the store is initialized
Subscribed(st) == [st EXCEPT !.initialized = TRUE, !.loading = FALSE]

\* what the caller of initAuth does when initAuth has returned
AfterInitAuth(k, rec, st) ==
    IF k = "guard" THEN GuardGoesOn(rec, st)
    ELSE [IdleTask EXCEPT !.result = "mounted"]

\* the mount hook of the application calls initAuth
MountCall ==
    /\ task["mount"] = IdleTask
    /\ IF authStore.initialized
       THEN /\ task' = [task EXCEPT !["mount"].result = "mounted"]
            /\ UNCHANGED <<authStore, client>>
       ELSE /\ authStore' = [authStore EXCEPT !.loading = TRUE]
            /\ client' = [client EXCEPT !.reads = @ + 1]
            /\ task' = [task EXCEPT !["mount"].pc = "session"]
    /\ UNCHANGED <<storeVars, admins, dbCustomers, request>>

\* a navigation enters the guard: no-access is admitted at once, initAuth is
\* called if the store is not initialized, otherwise the guard goes on
GuardCall(to) ==
    LET rec == [IdleTask EXCEPT !.to = to] IN
    /\ task["guard"].pc = "idle"
    /\ IF to = "no-access"
       THEN /\ task' = [task EXCEPT !["guard"] = Returned(rec, authStore, "admit")]
            /\ UNCHANGED <<authStore, client>>
       ELSE IF ~authStore.initialized
       THEN /\ authStore' = [authStore EXCEPT !.loading = TRUE]
            /\ client' = [client EXCEPT !.reads = @ + 1]
            /\ task' = [task EXCEPT !["guard"] = [rec EXCEPT !.pc = "session"]]
       ELSE /\ task' = [task EXCEPT !["guard"] = GuardGoesOn(rec, authStore)]
            /\ UNCHANGED <<authStore, client>>
    /\ UNCHANGED <<storeVars, admins, dbCustomers, request>>

\* getSession answers in initAuth: session and user are set; with a user
\* fetchAdmin issues the rpc, without one initAuth runs to its end
SessionFetched(k) ==
    LET st == [authStore EXCEPT !.session = client.user] IN
    /\ task[k].pc = "session"
    /\ IF client.user # Null
       THEN /\ authStore' = st
            /\ task' = [task EXCEPT ![k].pc = "rpc", ![k].uid = client.user]
            /\ UNCHANGED client
       ELSE /\ authStore' = Subscribed([st EXCEPT !.isAdmin = No])
            /\ client' = [client EXCEPT !.subs = @ + 1]
            /\ task' = [task EXCEPT ![k] = AfterInitAuth(k, @, authStore')]
    /\ UNCHANGED <<storeVars, admins, dbCustomers, request>>

\* getSession fails in initAuth: the error is stored, no listener is
\* registered, the store is initialized
SessionFailed(k) ==
    /\ task[k].pc = "session"
    /\ authStore' = Subscribed([authStore EXCEPT !.error = ErrInitAuth])
    /\ task' = [task EXCEPT ![k] = AfterInitAuth(k, @, authStore')]
    /\ UNCHANGED <<storeVars, admins, dbCustomers, request, client>>

\* the task goes on after its fetchAdmin has set isAdmin
AfterFetchAdmin(k, status) ==
    LET st == [authStore EXCEPT !.isAdmin = status] IN
    CASE k \in {"mount", "guard"} /\ task[k].pc = "rpc" ->
            /\ authStore' = Subscribed(st)
            /\ client' = [client EXCEPT !.subs = @ + 1]
            /\ task' = [task EXCEPT ![k] = AfterInitAuth(k, @, authStore')]
      [] k = "guard" /\ task[k].pc = "admin" ->
            /\ authStore' = st
            /\ task' = [task EXCEPT ![k] = Returned(@, st, GuardTail(st, @.to))]
            /\ UNCHANGED client
      [] k = "login" ->
            /\ authStore' = [st EXCEPT !.loading = FALSE]
            /\ task' = [task EXCEPT ![k] = IdleTask]
            /\ UNCHANGED client
      [] k = "listener" ->
            /\ authStore' = st
            /\ task' = [task EXCEPT ![k] = IdleTask]
            /\ UNCHANGED client

\* the rpc is_admin answers: the database looks the caller up in admins
AdminFetched(k) ==
    /\ task[k].pc \in {"rpc", "admin"}
    /\ AfterFetchAdmin(k, Flag(is_admin(task[k].uid)))
    /\ UNCHANGED <<storeVars, admins, dbCustomers, request>>

\* the rpc is_admin fails: isAdmin is set to false
AdminFetchFailed(k) ==
    /\ task[k].pc \in {"rpc", "admin"}
    /\ AfterFetchAdmin(k, No)
    /\ UNCHANGED <<storeVars, admins, dbCustomers, request>>

\* login up to its await
LoginCall(u) ==
    /\ task["login"].pc = "idle"
    /\ authStore' = [authStore EXCEPT !.loading = TRUE, !.error = Null]
    /\ task' = [task EXCEPT !["login"] = [IdleTask EXCEPT !.pc = "signin", !.uid = u]]
    /\ UNCHANGED <<storeVars, admins, dbCustomers, request, client>>

\* signInWithPassword succeeds: the client is signed in, session and user
\* are set and fetchAdmin issues the rpc
SignedIn ==
    LET u == task["login"].uid IN
    /\ task["login"].pc = "signin"
    /\ client' = [client EXCEPT !.user = u]
    /\ authStore' = [authStore EXCEPT !.session = u]
    /\ task' = [task EXCEPT !["login"].pc = "rpc"]
    /\ UNCHANGED <<storeVars, admins, dbCustomers, request>>

\* signInWithPassword fails: the error is stored and rethrown
SignInFailed ==
    /\ task["login"].pc = "signin"
    /\ authStore' = [authStore EXCEPT !.error = ErrLogin, !.loading = FALSE]
    /\ task' = [task EXCEPT !["login"] = IdleTask]
    /\ UNCHANGED <<storeVars, admins, dbCustomers, request, client>>

\* logout up to its await
LogoutCall ==
    /\ task["logout"].pc = "idle"
    /\ authStore' = [authStore EXCEPT !.loading = TRUE, !.error = Null]
    /\ task' = [task EXCEPT !["logout"] = [IdleTask EXCEPT !.pc = "signout"]]
    /\ UNCHANGED <<storeVars, admins, dbCustomers, request, client>>

\* signOut succeeds: the client is signed out and the store is reset
SignedOut ==
    /\ task["logout"].pc = "signout"
    /\ client' = [client EXCEPT !.user = Null]
    /\ authStore' = [authStore EXCEPT !.session = Null, !.isAdmin = No,
                                      !.loading = FALSE]
    /\ task' = [task EXCEPT !["logout"] = IdleTask]
    /\ UNCHANGED <<storeVars, admins, dbCustomers, request>>

\* signOut fails: the error is stored and rethrown
SignOutFailed ==
    /\ task["logout"].pc = "signout"
    /\ authStore' = [authStore EXCEPT !.error = ErrLogout, !.loading = FALSE]
    /\ task' = [task EXCEPT !["logout"] = IdleTask]
    /\ UNCHANGED <<storeVars, admins, dbCustomers, request, client>>

\* the client's session changes outside the store (another tab signs in or
\* out, the session expires or is refreshed) and the registered listener is
\* called with the new session: session and user are set; with a user
\* fetchAdmin issues the rpc, without one isAdmin is set to false
AuthStateChange(u) ==
    /\ client.subs > 0
    /\ task["listener"].pc = "idle"
    /\ client' = [client EXCEPT !.user = u]
    /\ IF u # Null
       THEN /\ authStore' = [authStore EXCEPT !.session = u]
            /\ task' = [task EXCEPT !["listener"] =
                            [IdleTask EXCEPT !.pc = "rpc", !.uid = u]]
       ELSE /\ authStore' = [authStore EXCEPT !.session = Null, !.isAdmin = No]
            /\ task' = [task EXCEPT !["listener"] = IdleTask]
    /\ UNCHANGED <<storeVars, admins, dbCustomers, request>>


----------------------------------------------------------------------------
(* Specifications *)

Init ==
    /\ dbBooks = SeedBooks
    /\ dbSales = <<>>
    /\ dbItems = <<>>
    /\ books = [s \in Sessions |-> SeedBooks]
    /\ currentSale = [s \in Sessions |-> EmptySale]
    /\ sales = [s \in Sessions |-> <<>>]
    /\ loading = [s \in Sessions |-> FALSE]
    /\ error = [s \in Sessions |-> Null]
    /\ booksFlags = [s \in Sessions |-> [loading |-> FALSE, error |-> Null]]
    /\ run = [r \in Runs |-> IdleRun]
    /\ call = NoCall
    /\ admins = {SeedAdmin}
    /\ dbCustomers = SeedCustomers
    /\ request = NoRequest
    /\ client = InitialClient(Null)
    /\ authStore = InitialAuthStore
    /\ task = [k \in Tasks |-> IdleTask]

\* one session, one checkout at a time, the operations of the sales store
\* as the point-of-sale screen drives them
Next ==
    \/ \E b \in Books : addItemToCurrentSale("s1", b, 1)
    \/ \E b \in Books : removeItemFromCurrentSale("s1", b)
    \/ \E b \in Books, q \in 0..MaxQty : updateItemQuantity("s1", b, q)
    \/ setCustomer("s1", "K1")
    \/ setDiscount("s1", 10)
    \/ clearCurrentSale("s1")
    \/ (HeadersLeft(MaxSales) /\ completeSale("r1", "s1"))
    \/ HeaderInserted("r1")
    \/ HeaderFailed("r1")
    \/ ItemsInserted("r1")
    \/ ItemsFailed("r1")
    \/ StockUpdated("r1")
    \/ StockFailed("r1")

Spec == Init /\ [][Next]_vars

\* the draft operations alone, with every argument of the bounded input sets
NextCart ==
    \/ \E b \in BookIds, q \in QtyArgs : addItemToCurrentSale("s1", b, q)
    \/ \E b \in Books : removeItemFromCurrentSale("s1", b)
    \/ \E b \in Books, q \in QtyArgs : updateItemQuantity("s1", b, q)
    \/ \E c \in {Undefined, "K1"} : setCustomer("s1", c)
    \/ \E m \in PaymentMethods : setPaymentMethod("s1", m)
    \/ \E d \in DiscountArgs : setDiscount("s1", d)
    \/ setNotes("s1", "n1")
    \/ clearCurrentSale("s1")

SpecCart == Init /\ [][NextCart]_vars

\* addItem with every argument, and the operations that never raise a quantity
NextAdd ==
    \/ \E b \in BookIds, q \in QtyArgs : addItemToCurrentSale("s1", b, q)
    \/ \E b \in Books : removeItemFromCurrentSale("s1", b)
    \/ \E d \in DiscountArgs : setDiscount("s1", d)

SpecAdd == Init /\ [][NextAdd]_vars

\* the session a call slot belongs to in SpecRace
RaceSession(r) == IF r = "r1" THEN "s1" ELSE "s2"

\* two sessions, each checking out book B1 one unit at a time
NextRace ==
    \/ \E s \in Sessions : addItemToCurrentSale(s, "B1", 1)
    \/ \E r \in Runs : (HeadersLeft(MaxRaceSales) /\ completeSale(r, RaceSession(r)))
    \/ \E r \in Runs : HeaderInserted(r)
    \/ \E r \in Runs : HeaderFailed(r)
    \/ \E r \in Runs : ItemsInserted(r)
    \/ \E r \in Runs : ItemsFailed(r)
    \/ \E r \in Runs : StockUpdated(r)
    \/ \E r \in Runs : StockFailed(r)

SpecRace == Init /\ [][NextRace]_vars

\* the draft's money: lines of up to MaxSetQty units under the discounts of
\* Discounts, and the checkout up to the reply to its header insert
NextTotal ==
    \/ \E b \in Books : addItemToCurrentSale("s1", b, 1)
    \/ \E b \in Books, q \in 1..MaxSetQty : updateItemQuantity("s1", b, q)
    \/ \E d \in Discounts : setDiscount("s1", d)
    \/ completeSale("r1", "s1")
    \/ HeaderFailed("r1")

SpecTotal == Init /\ [][NextTotal]_vars

\* a draft with a customer, a payment method, a discount and notes, cleared
\* by clearCurrentSale or checked out
NextClear ==
    \/ addItemToCurrentSale("s1", "B2", 1)
    \/ setCustomer("s1", "K1")
    \/ setPaymentMethod("s1", "card")
    \/ setDiscount("s1", 10)
    \/ setNotes("s1", "n1")
    \/ clearCurrentSale("s1")
    \/ (HeadersLeft(MaxSales) /\ completeSale("r1", "s1"))
    \/ HeaderInserted("r1")
    \/ HeaderFailed("r1")
    \/ ItemsInserted("r1")
    \/ ItemsFailed("r1")
    \/ StockUpdated("r1")
    \/ StockFailed("r1")

SpecClear == Init /\ [][NextClear]_vars

\* one session selling book B2 in checkouts that follow one another: the
\* draft is built while no checkout is in progress
NextSeq ==
    \/ (run["r1"].pc = "idle" /\ addItemToCurrentSale("s1", "B2", 1))
    \/ \E q \in 0..MaxQty :
            (run["r1"].pc = "idle" /\ updateItemQuantity("s1", "B2", q))
    \/ (HeadersLeft(MaxSeqSales) /\ completeSale("r1", "s1"))
    \/ HeaderInserted("r1")
    \/ HeaderFailed("r1")
    \/ ItemsInserted("r1")
    \/ ItemsFailed("r1")
    \/ StockUpdated("r1")
    \/ StockFailed("r1")

SpecSeq == Init /\ [][NextSeq]_vars

\* stock adjustments of two sessions, with signed quantities
NextStock ==
    \/ \E r \in Runs, b \in BookIds, d \in DeltaArgs :
            updateStock(r, RaceSession(r), b, d)
    \/ \E r \in Runs : StockAdjusted(r)
    \/ \E r \in Runs : AdjustFailed(r)

SpecStock == Init /\ [][NextStock]_vars

\* one session selling book B1 while the price of B1 is edited
NextPrice ==
    \/ addItemToCurrentSale("s1", "B1", 1)
    \/ removeItemFromCurrentSale("s1", "B1")
    \/ \E price \in PriceArgs : updateBook("r2", "s1", "B1", price)
    \/ BookUpdated("r2")
    \/ BookUpdateFailed("r2")
    \/ (HeadersLeft(MaxSales) /\ completeSale("r1", "s1"))
    \/ HeaderInserted("r1")
    \/ HeaderFailed("r1")
    \/ ItemsInserted("r1")
    \/ ItemsFailed("r1")
    \/ StockUpdated("r1")
    \/ StockFailed("r1")

SpecPrice == Init /\ [][NextPrice]_vars

\* the point-of-sale screen selling book B2: its line added, changed and
\* removed, a discount set through the store, and the screen's checkout with
\* an amount paid
NextScreen ==
    \/ addItemToCurrentSale("s1", "B2", 1)
    \/ \E q \in 1..MaxQty : updateItemQuantity("s1", "B2", q)
    \/ removeItemFromCurrentSale("s1", "B2")
    \/ \E d \in Discounts : setDiscount("s1", d)
    \/ \E a \in AmountArgs("s1"), m \in PaymentMethods :
            (HeadersLeft(MaxSales)
                /\ ScreenCompleteSale("r1", "s1", a, Undefined, m))
    \/ HeaderInserted("r1")
    \/ HeaderFailed("r1")
    \/ ItemsInserted("r1")
    \/ ItemsFailed("r1")
    \/ StockUpdated("r1")
    \/ StockFailed("r1")

SpecScreen == Init /\ [][NextScreen]_vars

\* one session selling books and deleting books from the catalog
NextDelete ==
    \/ \E b \in Books : addItemToCurrentSale("s1", b, 1)
    \/ \E b \in Books : deleteBook("r2", "s1", b)
    \/ BookDeleted("r2")
    \/ BookDeleteFailed("r2")
    \/ (HeadersLeft(MaxSales) /\ completeSale("r1", "s1"))
    \/ HeaderInserted("r1")
    \/ HeaderFailed("r1")
    \/ ItemsInserted("r1")
    \/ ItemsFailed("r1")
    \/ StockUpdated("r1")
    \/ StockFailed("r1")

SpecDelete == Init /\ [][NextDelete]_vars

\* no completeSale is in progress
NoCheckout == run["r1"].pc = "idle"

\* one session whose books leave the in-memory catalog, by a load of a
\* short page or by a delete, between filling the draft and checking out
NextAbsent ==
    \/ \E b \in Books : addItemToCurrentSale("s1", b, 1)
    \/ \E n \in LimitArgs : (NoCheckout /\ loadBooks("r2", "s1", n))
    \/ BooksLoaded("r2")
    \/ BooksLoadFailed("r2")
    \/ (NoCheckout /\ deleteBook("r2", "s1", "B1"))
    \/ BookDeleted("r2")
    \/ BookDeleteFailed("r2")
    \/ \E b \in Books : (NoCheckout /\ updateStock("r2", "s1", b, -1))
    \/ StockAdjusted("r2")
    \/ AdjustFailed("r2")
    \/ (run["r2"].pc = "idle" /\ HeadersLeft(MaxSales) /\ completeSale("r1", "s1"))
    \/ HeaderInserted("r1")
    \/ HeaderFailed("r1")
    \/ ItemsInserted("r1")
    \/ ItemsFailed("r1")
    \/ StockUpdated("r1")
    \/ StockFailed("r1")

SpecAbsent == Init /\ [][NextAbsent]_vars

\* one session filling the draft and checking out, again after a failure
NextRetry ==
    \/ \E b \in Books : addItemToCurrentSale("s1", b, 1)
    \/ (HeadersLeft(MaxRetrySales) /\ completeSale("r1", "s1"))
    \/ HeaderInserted("r1")
    \/ HeaderFailed("r1")
    \/ ItemsInserted("r1")
    \/ ItemsFailed("r1")
    \/ StockUpdated("r1")
    \/ StockFailed("r1")

SpecRetry == Init /\ [][NextRetry]_vars

\* the field setters of the draft with every kind of number, on drafts with
\* and without lines
NextDiscount ==
    \/ \E b \in Books : addItemToCurrentSale("s1", b, 1)
    \/ \E c \in {Undefined, "K1"} : setCustomer("s1", c)
    \/ \E m \in PaymentMethods : setPaymentMethod("s1", m)
    \/ \E d \in NumericArgs : setDiscount("s1", d)
    \/ setNotes("s1", "n1")

SpecDiscount == Init /\ [][NextDiscount]_vars

\* the page loads with or without a session kept from an earlier visit
InitAuth ==
    /\ dbBooks = SeedBooks
    /\ dbSales = <<>>
    /\ dbItems = <<>>
    /\ books = [s \in Sessions |-> SeedBooks]
    /\ currentSale = [s \in Sessions |-> EmptySale]
    /\ sales = [s \in Sessions |-> <<>>]
    /\ loading = [s \in Sessions |-> FALSE]
    /\ error = [s \in Sessions |-> Null]
    /\ booksFlags = [s \in Sessions |-> [loading |-> FALSE, error |-> Null]]
    /\ run = [r \in Runs |-> IdleRun]
    /\ call = NoCall
    /\ admins = {SeedAdmin}
    /\ dbCustomers = SeedCustomers
    /\ request = NoRequest
    /\ \E u \in Callers : client = InitialClient(u)
    /\ authStore = InitialAuthStore
    /\ task = [k \in Tasks |-> IdleTask]

\* the mount hook, navigations through the guard, login, logout and changes
\* of the client's session, in any interleaving of their awaits, while the
\* list of administrators changes
NextAuth ==
    \/ MountCall
    \/ \E to \in Routes : GuardCall(to)
    \/ \E k \in {"mount", "guard"} : SessionFetched(k)
    \/ \E k \in {"mount", "guard"} : SessionFailed(k)
    \/ \E k \in Tasks : AdminFetched(k)
    \/ \E k \in Tasks : AdminFetchFailed(k)
    \/ \E u \in Users : LoginCall(u)
    \/ SignedIn
    \/ SignInFailed
    \/ LogoutCall
    \/ SignedOut
    \/ SignOutFailed
    \/ \E u \in Callers : AuthStateChange(u)
    \/ InsertAdmin(SeedAdmin)
    \/ DeleteAdmin(SeedAdmin)

SpecAuth == InitAuth /\ [][NextAuth]_vars

\* requests of administrators, other users and anonymous callers on the four
\* tables, while the list of administrators changes
NextRls ==
    \/ \E uid \in Callers, t \in Tables : SelectRows(uid, t)
    \/ \E uid \in Callers, k \in Customers : InsertCustomer(uid, k)
    \/ \E uid \in Callers, k \in Customers : DeleteCustomer(uid, k)
    \/ \E uid \in Callers, b \in Books, price \in PriceArgs :
            UpdateBookRow(uid, b, price)
    \/ \E uid \in Callers : InsertSaleRow(uid)
    \/ \E uid \in Callers : InsertSaleItems(uid)
    \/ \E uid \in Callers : DeleteSaleItems(uid)
    \/ \E u \in Users : InsertAdmin(u)
    \/ \E u \in Users : DeleteAdmin(u)

SpecRls == Init /\ [][NextRls]_vars

----------------------------------------------------------------------------
(* Properties *)

\* call r has returned with the given outcome, and nothing but the call's own
\* steps has happened since it was invoked
Finished(r, outcome) ==
    /\ run[r].pc = "idle"
    /\ run[r].outcome = outcome
    /\ run[r].clean
    /\ run[r].snap.taken

RECURSIVE SumPriceQuantity(_)
SumPriceQuantity(items) ==
    IF items = <<>> THEN 0
    ELSE Head(items).price * Head(items).quantity + SumPriceQuantity(Tail(items))

LineQuantity(s, b) ==
    LET i == FindIndex(currentSale[s].items, b) IN
    IF i = 0 THEN 0 ELSE currentSale[s].items[i].quantity

\* C3 (as claimed): addItem fails whenever the quantity already in the draft
\* for the book plus the quantity asked for exceeds the book's stock, and so,
\* the stock being unchanged, no draft line has a quantity above its book's
\* stock.
C3_CumulativeGuard ==
    /\ \A b \in Books, q \in QtyArgs :
        LineQuantity("s1", b) + q > books["s1"][b].stock
            => AddItemThrows("s1", b, q)
    /\ \A i \in 1..Len(currentSale["s1"].items) :
        LET line == currentSale["s1"].items[i] IN
        line.quantity <= books["s1"][line.bookId].stock

\* C10: the draft's subtotal is the sum over its lines of unit price times
\* quantity, and each line's stored subtotal is its unit price times its
\* quantity.
C10_SubtotalIsSum ==
    \A s \in Sessions :
        /\ currentSaleSubtotal(s) = SumPriceQuantity(currentSale[s].items)
        /\ \A i \in 1..Len(currentSale[s].items) :
            currentSale[s].items[i].subtotal =
                currentSale[s].items[i].price * currentSale[s].items[i].quantity

\* a draft of two lines, one of them merged or set to a quantity of 2
C10_Witness ==
    /\ Len(currentSale["s1"].items) = 2
    /\ currentSale["s1"].items[1].quantity = 2
    /\ currentSale["s1"].items[2].quantity = 1
    /\ currentSaleSubtotal("s1") > 0

\* the rows of sale_items that reference book b
ItemsOfBook(b) == {i \in 1..Len(dbItems) : dbItems[i].book_id = b}

RECURSIVE SumQuantity(_)
\* total quantity over a set of sale_items row numbers
SumQuantity(rows) ==
    IF rows = {} THEN 0
    ELSE LET i == CHOOSE j \in rows : TRUE IN
         dbItems[i].quantity + SumQuantity(rows \ {i})

\* the ids of the sales of exactly one unit of book b that session s has
\* recorded
OneUnitSales(s, b) ==
    {sales[s][i].id : i \in
        {j \in 1..Len(sales[s]) :
            /\ Len(sales[s][j].items) = 1
            /\ sales[s][j].items[1].bookId = b
            /\ sales[s][j].items[1].quantity = 1}}

\* the sale_items rows of sale id are one row: one unit of book b
OneUnitStored(id, b) ==
    /\ Cardinality({i \in 1..Len(dbItems) : dbItems[i].sale_id = id}) = 1
    /\ \E i \in ItemsOfBook(b) :
        dbItems[i].sale_id = id /\ dbItems[i].quantity = 1

\* C2: when both sessions, each holding an in-memory stock of 1 for book B1,
\* have run completeSale for one unit of B1 to success, two sale items for B1
\* from two different sales are persisted, the quantity sold is 2, more than
\* the initial stock of 1, and the persisted stock is 0.
C2_BothSalesOversell ==
    \A id1 \in OneUnitSales("s1", "B1"), id2 \in OneUnitSales("s2", "B1") :
        /\ id1 # id2
        /\ OneUnitStored(id1, "B1")
        /\ OneUnitStored(id2, "B1")
        /\ SumQuantity(ItemsOfBook("B1")) >= 2
        /\ SumQuantity(ItemsOfBook("B1")) > SeedBooks["B1"].stock
        /\ dbBooks["B1"].stock = 0

\* a checkout that overlapped another one has just succeeded, and both
\* sessions have sold one unit of B1
C2_Witness ==
    /\ \E r \in Runs :
        /\ run[r].pc = "idle"
        /\ run[r].outcome = "ok"
        /\ run[r].overlapped
    /\ OneUnitSales("s1", "B1") # {}
    /\ OneUnitSales("s2", "B1") # {}
    /\ SeedBooks["B1"].stock = 1
    /\ Cardinality(ItemsOfBook("B1")) = 2
    /\ SumQuantity(ItemsOfBook("B1")) = 2
    /\ dbBooks["B1"].stock = 0

\* C4: when the header insert fails, with no other activity during the call,
\* no sales row and no sale_items row has been stored, no stock has changed,
\* the in-memory sales collection is unchanged and the draft is what it was
\* (items, customer, payment method, discount).
C4_HeaderFailureNoEffect ==
    \A r \in Runs :
        Finished(r, "sales") =>
            LET sn == run[r].snap
                s == run[r].sess
            IN
            /\ Len(dbSales) = sn.nSales
            /\ Len(dbItems) = sn.nItems
            /\ dbBooks = sn.dbBooks
            /\ books[s] = sn.books
            /\ sales[s] = sn.sales
            /\ currentSale[s] = sn.sale

\* the header insert has failed for a draft of two lines with a customer and
\* a discount
C4_Witness ==
    \E r \in Runs :
        /\ Finished(r, "sales")
        /\ Len(run[r].snap.sale.items) = 2
        /\ run[r].snap.sale.customerId = "K1"
        /\ run[r].snap.sale.discount = 10

\* the sale_items rows stored for the lines of a draft under sale id
StoredItems(id, items) ==
    [i \in 1..Len(items) |-> ItemRow(ItemsRows(id, items)[i])]

\* C5: when the stock update of line k fails, with no other activity during
\* the call, the updates of lines 1..k-1 stay applied, the lines from k on
\* keep their stock, the header and all its sale items stay stored, the call
\* ends with an error, the sale is not added to the in-memory collection and
\* the draft is not cleared.
C5_StockFailureKeepsEarlier ==
    \A r \in Runs :
        Finished(r, "stock") =>
            LET sn == run[r].snap
                s == run[r].sess
                k == run[r].idx
                items == sn.sale.items
            IN
            /\ \A i \in 1..Len(items) :
                LET b == items[i].bookId IN
                IF i < k
                THEN dbBooks[b].stock =
                        Max(0, sn.books[b].stock - items[i].quantity)
                ELSE dbBooks[b].stock = sn.dbBooks[b].stock
            /\ Len(dbSales) = sn.nSales + 1
            /\ dbSales[Len(dbSales)].id = run[r].saleRow
            /\ SubSeq(dbItems, sn.nItems + 1, Len(dbItems)) =
                    StoredItems(run[r].saleRow, items)
            /\ error[s] # Null
            /\ sales[s] = sn.sales
            /\ currentSale[s] = sn.sale

\* the stock update of the second of two lines has failed
C5_Witness ==
    \E r \in Runs :
        /\ Finished(r, "stock")
        /\ run[r].idx = 2
        /\ Len(run[r].snap.sale.items) = 2
        /\ dbBooks # run[r].snap.dbBooks

\* C6: when the line-item insert fails, with no other activity during the
\* call, the header inserted before it is still stored, no stock has changed
\* and the draft is not cleared.
C6_ItemsFailureOrphansHeader ==
    \A r \in Runs :
        Finished(r, "sale_items") =>
            LET sn == run[r].snap
                s == run[r].sess
            IN
            /\ Len(dbSales) = sn.nSales + 1
            /\ dbSales[Len(dbSales)].id = run[r].saleRow
            /\ dbBooks = sn.dbBooks
            /\ books[s] = sn.books
            /\ currentSale[s] = sn.sale

\* the line-item insert has failed and left a header no sale item references
C6_Witness ==
    \E r \in Runs :
        /\ Finished(r, "sale_items")
        /\ Len(run[r].snap.sale.items) = 2
        /\ \E i \in 1..Len(dbSales) :
            /\ dbSales[i].id = run[r].saleRow
            /\ \A j \in 1..Len(dbItems) : dbItems[j].sale_id # dbSales[i].id

\* the persistence calls of a checkout of the given lines, in order: each
\* call is issued and completes before the next is issued
ExpectedLog(items) ==
    LET n == Len(items) IN
    <<<<"issue", "sales", "-">>, <<"done", "sales", "-">>,
      <<"issue", "sale_items", "-">>, <<"done", "sale_items", "-">>>>
    \o [j \in 1..(2 * n) |->
            <<IF j % 2 = 1 THEN "issue" ELSE "done", "stock",
              items[(j + 1) \div 2].bookId>>]
    \o <<<<"record", "sale", "-">>>>

IsPrefix(a, b) ==
    /\ Len(a) <= Len(b)
    /\ \A i \in 1..Len(a) : a[i] = b[i]

\* the calls of a log, without the closing entry of a failed call
CallLog(log) ==
    IF log # <<>> /\ log[Len(log)][1] = "fail"
    THEN SubSeq(log, 1, Len(log) - 1) ELSE log

\* C7: within one undisturbed completeSale run the persistence calls are
\* sequential and ordered: header insert, then line-item insert, then one
\* stock update per line in draft order, each completed before the next is
\* issued; the store shows it: no row before the header reply, header but no
\* items while the item insert is in flight, header, items and exactly the
\* updates of the lines before idx during the loop; the sale is added to the
\* in-memory collection and the draft cleared only after the last update.
C7_SequentialOrdered ==
    \A r \in Runs :
        (run[r].clean /\ run[r].snap.taken) =>
            LET rec == run[r]
                sn == rec.snap
                s == rec.sess
                items == sn.sale.items
                Applied(k) ==
                    \A i \in 1..Len(items) :
                        LET b == items[i].bookId IN
                        IF i < k
                        THEN dbBooks[b].stock =
                                Max(0, sn.books[b].stock - items[i].quantity)
                        ELSE dbBooks[b].stock = sn.dbBooks[b].stock
            IN
            /\ IsPrefix(CallLog(rec.log), ExpectedLog(items))
            /\ rec.pc = "hdr" =>
                /\ Len(dbSales) = sn.nSales
                /\ Len(dbItems) = sn.nItems
                /\ dbBooks = sn.dbBooks
            /\ rec.pc = "items" =>
                /\ Len(dbSales) = sn.nSales + 1
                /\ Len(dbItems) = sn.nItems
                /\ dbBooks = sn.dbBooks
            /\ rec.pc = "stock" =>
                /\ Len(dbSales) = sn.nSales + 1
                /\ Len(dbItems) = sn.nItems + Len(items)
                /\ Applied(rec.idx)
            /\ rec.pc # "idle" =>
                /\ sales[s] = sn.sales
                /\ currentSale[s] = sn.sale
            /\ (rec.pc = "idle" /\ rec.outcome = "ok") =>
                /\ rec.log = ExpectedLog(items)
                /\ Applied(Len(items) + 1)
                /\ sales[s] = <<rec.result>> \o sn.sales
                /\ currentSale[s] = EmptySale

\* a checkout of two lines has run to its end undisturbed
C7_Witness ==
    \E r \in Runs :
        /\ Finished(r, "ok")
        /\ Len(run[r].snap.sale.items) = 2
        /\ Len(run[r].log) = 9

\* the sales row stored for call r
HeaderOf(r) ==
    dbSales[CHOOSE i \in 1..Len(dbSales) : dbSales[i].id = run[r].saleRow]

\* C8 (as claimed): the total, subtotal, tax and discount of the stored
\* header, and of the Sale completeSale returns, equal the values derived
\* from the draft at the moment completeSale was invoked.
C8_HeaderMatchesDraft ==
    \A r \in Runs :
        (run[r].clean /\ run[r].snap.taken /\ run[r].saleRow # 0) =>
            LET derived == SaleInsert(run[r].snap.sale)
                row == HeaderOf(r)
                res == run[r].result
            IN
            /\ row.total = derived.total
            /\ row.subtotal = derived.subtotal
            /\ row.tax = derived.tax
            /\ row.discount = derived.discount
            /\ (run[r].pc = "idle" /\ run[r].outcome = "ok") =>
                /\ res.total = derived.total
                /\ res.subtotal = derived.subtotal
                /\ res.tax = derived.tax
                /\ res.discount = derived.discount

\* C9 (as claimed): every stored sale has
\* total = subtotal - subtotal * discount / 100 + tax, and total, subtotal,
\* tax and discount all >= 0.
C9_SaleIdentity ==
    \A i \in 1..Len(dbSales) :
        LET row == dbSales[i] IN
        /\ row.total * 100 =
            row.subtotal * 100 - row.subtotal * row.discount + row.tax * 100
        /\ row.total >= 0
        /\ row.subtotal >= 0
        /\ row.tax >= 0
        /\ row.discount >= 0

\* C11: the draft total is subtotal * (1 - discount/100) + subtotal * 0.08
\* for every discount of [0, 100] (here times 100, in whole ticks); one line
\* of price 10.00 and quantity 3 under discount 10 has subtotal 30.00, tax
\* 2.40 and total 29.40; and the total completeSale computes for the header
\* is the draft's derived total.
C11_TotalFormula ==
    /\ \A s \in Sessions :
        LET subtotal == currentSaleSubtotal(s)
            discount == currentSale[s].discount
        IN
        /\ discount >= 0 /\ discount <= 100
        /\ currentSaleTotal(s) * 100 =
                subtotal * (100 - discount) + subtotal * TaxPercent
        /\ (/\ Len(currentSale[s].items) = 1
            /\ currentSale[s].items[1].price = 1000 * CentTicks
            /\ currentSale[s].items[1].quantity = 3
            /\ discount = 10)
            => /\ subtotal = 3000 * CentTicks
               /\ TaxOf(subtotal) = 240 * CentTicks
               /\ currentSaleTotal(s) = 2940 * CentTicks
    /\ \A r \in Runs :
        (run[r].pc = "hdr" /\ run[r].clean) =>
            /\ run[r].total = currentSaleTotal(run[r].sess)
            /\ run[r].saleInsert.total = currentSaleTotal(run[r].sess)

\* completeSale has been called on the draft of one line of price 10.00 and
\* quantity 3 under discount 10
C11_Witness ==
    /\ run["r1"].pc = "hdr"
    /\ run["r1"].clean
    /\ Len(currentSale["s1"].items) = 1
    /\ currentSale["s1"].items[1].price = 1000 * CentTicks
    /\ currentSale["s1"].items[1].quantity = 3
    /\ currentSale["s1"].discount = 10
    /\ run["r1"].total = 2940 * CentTicks

\* C12 (as claimed): every line of every draft has a quantity above 0,
\* whatever integer quantities addItem and setQuantity are called with.
C12_QuantityPositive ==
    \A s \in Sessions :
        \A i \in 1..Len(currentSale[s].items) :
            currentSale[s].items[i].quantity > 0

\* C13: addItem with a quantity above the book's stock, or with an id no
\* book has, throws and leaves the draft as it was; and no addItem call,
\* failed or successful, changes the stock of any book, in memory or stored.
C13_AddItemFailureFrame ==
    call.op = "addItemToCurrentSale" =>
        LET s == call.sess
            book == call.books[call.bookId]
        IN
        /\ (book = NoBook \/ call.quantity > book.stock) =>
                /\ call.threw
                /\ currentSale[s] = call.sale
        /\ call.threw => currentSale[s] = call.sale
        /\ books[s] = call.books
        /\ dbBooks = call.dbBooks

\* addItem has just thrown for a quantity above the stock of a known book, on
\* a draft that holds a line
C13_Witness ==
    /\ call.op = "addItemToCurrentSale"
    /\ call.threw
    /\ call.books[call.bookId] # NoBook
    /\ call.quantity > call.books[call.bookId].stock
    /\ call.sale.items # <<>>
    /\ currentSale[call.sess] = call.sale

\* the draft has no line, discount 0, payment method "cash", no customer and
\* no notes
IsCleared(sale) ==
    /\ sale.items = <<>>
    /\ sale.discount = 0
    /\ sale.paymentMethod = "cash"
    /\ sale.customerId = Undefined
    /\ sale.notes = Undefined

\* C14: when completeSale has just returned a sale, and when
\* clearCurrentSale has just been called, the draft has items = [], discount
\* 0, payment method "cash", and neither customer nor notes.
C14_DraftCleared ==
    /\ \A r \in Runs :
        (run[r].pc = "idle" /\ run[r].outcome = "ok") =>
            IsCleared(currentSale[run[r].sess])
    /\ call.op = "clearCurrentSale" => IsCleared(currentSale[call.sess])

\* completeSale has just returned the sale of a draft that had a line, a
\* customer, payment by card, a discount and notes
C14_Witness ==
    \E r \in Runs :
        /\ Finished(r, "ok")
        /\ Len(run[r].snap.sale.items) = 1
        /\ run[r].snap.sale.customerId = "K1"
        /\ run[r].snap.sale.paymentMethod = "card"
        /\ run[r].snap.sale.discount = 10
        /\ run[r].snap.sale.notes = "n1"
        /\ IsCleared(currentSale[run[r].sess])

RECURSIVE SoldQuantity(_, _)
\* the quantity of book b over the lines of a sequence of recorded sales
SoldQuantity(recorded, b) ==
    IF recorded = <<>> THEN 0
    ELSE LET i == FindIndex(Head(recorded).items, b) IN
         (IF i = 0 THEN 0 ELSE Head(recorded).items[i].quantity)
            + SoldQuantity(Tail(recorded), b)

\* the sale_items rows stored under sale id, in insertion order
ItemsOfSale(id) == SelectSeq(dbItems, LAMBDA row : row.sale_id = id)

\* every checkout so far has succeeded: each stored header is a recorded sale
AllSucceeded(s) ==
    /\ \A r \in Runs : run[r].pc = "idle"
    /\ Len(dbSales) = Len(sales[s])

\* C15: after n checkouts of book B2 that followed one another and all
\* succeeded, with a combined quantity within the initial stock, the stock is
\* the initial stock less the combined quantity, and there are n recorded
\* sales and n stored headers with n distinct ids, each sale with its own sale
\* items.
C15_SequentialSales ==
    LET s == "s1"
        n == Len(sales[s])
        combined == SoldQuantity(sales[s], "B2")
    IN
    (AllSucceeded(s) /\ combined <= SeedBooks["B2"].stock) =>
        /\ dbBooks["B2"].stock = SeedBooks["B2"].stock - combined
        /\ books[s]["B2"].stock = SeedBooks["B2"].stock - combined
        /\ Cardinality({sales[s][i].id : i \in 1..n}) = n
        /\ {sales[s][i].id : i \in 1..n} = {dbSales[i].id : i \in 1..n}
        /\ Len(dbItems) = n
        /\ \A i \in 1..n :
            ItemsOfSale(sales[s][i].id) =
                StoredItems(sales[s][i].id, sales[s][i].items)

\* two checkouts of one unit of B2 each have succeeded, one after the other,
\* and the stock has gone from 2 to 0
C15_Witness ==
    /\ AllSucceeded("s1")
    /\ Len(sales["s1"]) = 2
    /\ SoldQuantity(sales["s1"], "B2") = 2
    /\ SeedBooks["B2"].stock = 2
    /\ dbBooks["B2"].stock = 0
    /\ sales["s1"][1].id # sales["s1"][2].id

\* C16: a stock adjustment that has just succeeded has stored, and put in
\* the session's memory, max(0, the stock it read + its signed quantity); and
\* no book's stock, stored or in memory, is ever negative.
C16_StockFloor ==
    /\ \A r \in Runs :
        (run[r].pc = "idle" /\ run[r].outcome = "adjusted") =>
            LET id == run[r].update.id
                after == IF run[r].read + run[r].delta < 0 THEN 0
                         ELSE run[r].read + run[r].delta
            IN
            /\ dbBooks[id].stock = after
            /\ books[run[r].sess][id].stock = after
    /\ \A b \in Books :
        /\ dbBooks[b].stock >= 0
        /\ \A s \in Sessions : books[s][b].stock >= 0

\* an adjustment by a negative quantity larger than the stock it read has
\* just succeeded, and one by a positive quantity was made before it
C16_Witness ==
    \E r \in Runs :
        /\ run[r].pc = "idle"
        /\ run[r].outcome = "adjusted"
        /\ run[r].read > 0
        /\ run[r].read + run[r].delta < 0
        /\ dbBooks[run[r].update.id].stock = 0
        /\ \E b \in Books : dbBooks[b].stock > SeedBooks[b].stock

\* the unit price of the draft line of session s for book b; -1 without line
LinePrice(s, b) ==
    LET i == FindIndex(currentSale[s].items, b) IN
    IF i = 0 THEN -1 ELSE currentSale[s].items[i].price

\* C17: in every step, a line that stays in the draft keeps its unit price
\* (adding more of the book merges into it), a line that appears has the
\* price the catalog holds for the book at that moment, the sale_items
\* payload completeSale builds carries the unit prices of the draft lines,
\* and the rows stored carry the unit prices of the payload, whatever the
\* catalog price is by then.
C17_PriceFrozen ==
    [][/\ \A s \in Sessions, b \in Books :
            /\ (LinePrice(s, b) # -1 /\ LinePrice(s, b)' # -1)
                    => LinePrice(s, b)' = LinePrice(s, b)
            /\ (LinePrice(s, b) = -1 /\ LinePrice(s, b)' # -1)
                    => LinePrice(s, b)' = books[s][b].price
       /\ \A r \in Runs :
            /\ (run[r].pc = "hdr" /\ run[r].pc' = "items") =>
                    LET items == currentSale[run[r].sess].items IN
                    /\ Len(run[r].itemsRows') = Len(items)
                    /\ \A i \in 1..Len(items) :
                        /\ run[r].itemsRows'[i].book_id = items[i].bookId
                        /\ run[r].itemsRows'[i].unit_price = items[i].price
            /\ (run[r].pc = "items" /\ dbItems' # dbItems) =>
                    /\ Len(dbItems') = Len(dbItems) + Len(run[r].itemsRows)
                    /\ \A i \in 1..Len(run[r].itemsRows) :
                        dbItems'[Len(dbItems) + i].unit_price =
                            run[r].itemsRows[i].unit_price
      ]_vars

\* a sale of a line of two units of B1, added at one price and merged at
\* another, is stored with the price of the first add, which is no longer
\* the catalog price
C17_Witness ==
    \E r \in Runs :
        /\ Finished(r, "ok")
        /\ Len(run[r].snap.sale.items) = 1
        /\ run[r].snap.sale.items[1].quantity = 2
        /\ Len(dbItems) = 1
        /\ dbItems[1].unit_price = SeedBooks["B1"].price
        /\ dbItems[1].unit_price = run[r].snap.sale.items[1].price
        /\ dbBooks["B1"].price # dbItems[1].unit_price
        /\ run[r].snap.books["B1"].price # dbItems[1].unit_price

\* the draft a call was made on, without its lines for book b
WithoutBook(sale, b) ==
    [sale EXCEPT !.items = SelectSeq(@, LAMBDA line : line.bookId # b)]

\* C18: setQuantity with a quantity of 0 or less leaves exactly the draft
\* removeItem leaves: the draft it was called on without the line of the
\* book, whatever that line's quantity, every other line and field as it
\* was; and if that was the only line, subtotal and total are 0.
C18_SetQuantityRemoves ==
    ((call.op = "updateItemQuantity" /\ call.quantity <= 0)
        \/ call.op = "removeItemFromCurrentSale") =>
        LET s == call.sess IN
        /\ currentSale[s] = WithoutBook(call.sale, call.bookId)
        /\ currentSale[s] =
                [call.sale EXCEPT !.items = RemoveItemLines(@, call.bookId)]
        /\ (Len(call.sale.items) = 1
                /\ call.sale.items[1].bookId = call.bookId)
            => /\ currentSale[s].items = <<>>
               /\ currentSaleSubtotal(s) = 0
               /\ currentSaleTotal(s) = 0

\* setQuantity with quantity 0 has just removed a line of two units from a
\* draft of two lines
C18_Witness ==
    /\ call.op = "updateItemQuantity"
    /\ call.quantity = 0
    /\ Len(call.sale.items) = 2
    /\ \E i \in 1..2 :
        /\ call.sale.items[i].bookId = call.bookId
        /\ call.sale.items[i].quantity = 2
    /\ Len(currentSale[call.sess].items) = 1
    /\ currentSale[call.sess].items[1].bookId # call.bookId

\* C19: setQuantity never throws; with a quantity above 0 on a book that has
\* a line it sets the line's quantity to it and the line's subtotal to unit
\* price times quantity, also when the quantity is above the book's stock,
\* and leaves the rest of the draft alone; on a book without line it changes
\* nothing.
C19_SetQuantityNoStockCheck ==
    call.op = "updateItemQuantity" =>
        LET s == call.sess
            before == call.sale.items
            i == FindIndex(before, call.bookId)
        IN
        /\ ~call.threw
        /\ i = 0 => currentSale[s] = call.sale
        /\ (i # 0 /\ call.quantity > 0) =>
            /\ Len(currentSale[s].items) = Len(before)
            /\ currentSale[s].items[i].quantity = call.quantity
            /\ currentSale[s].items[i].subtotal =
                    before[i].price * call.quantity
            /\ currentSale[s].items[i].price = before[i].price
            /\ currentSale[s].items[i].bookId = before[i].bookId
            /\ \A j \in 1..Len(before) :
                    j # i => currentSale[s].items[j] = before[j]
            /\ [currentSale[s] EXCEPT !.items = before] = call.sale

\* setQuantity has just set a line of one unit to two units of a book with a
\* stock of 1
C19_Witness ==
    /\ call.op = "updateItemQuantity"
    /\ call.quantity = 2
    /\ call.books[call.bookId].stock = 1
    /\ LET i == FindIndex(call.sale.items, call.bookId) IN
        /\ i # 0
        /\ call.sale.items[i].quantity = 1
        /\ currentSale[call.sess].items[i].quantity = 2
        /\ currentSale[call.sess].items[i].subtotal =
                2 * call.sale.items[i].price

\* C20: completeSale on a draft without lines throws at once: it has made no
\* persistence call, and the tables, the stocks, the draft, the in-memory
\* sales and the flags loading and error are what they were.
C20_EmptyDraftRejected ==
    \A r \in Runs :
        (run[r].pc = "idle" /\ run[r].outcome = "empty") =>
            LET sn == run[r].snap
                s == run[r].sess
            IN
            /\ sn.taken
            /\ sn.sale.items = <<>>
            /\ run[r].log = <<>>
            /\ Len(dbSales) = sn.nSales
            /\ Len(dbItems) = sn.nItems
            /\ dbBooks = sn.dbBooks
            /\ books[s] = sn.books
            /\ currentSale[s] = sn.sale
            /\ sales[s] = sn.sales
            /\ loading[s] = sn.loading
            /\ error[s] = sn.error

\* completeSale has just thrown on an empty draft that carries a discount,
\* with the error of an earlier failed checkout still set
C20_Witness ==
    \E r \in Runs :
        /\ run[r].pc = "idle"
        /\ run[r].outcome = "empty"
        /\ run[r].snap.taken
        /\ run[r].snap.error # Null
        /\ error[run[r].sess] # Null
        /\ currentSale[run[r].sess].items = <<>>
        /\ currentSale[run[r].sess].discount = 10

\* the store's completeSale was called from the screen in call r
CalledStore(r) ==
    run[r].pc \in {"hdr", "items", "stock"}
        \/ (run[r].pc = "idle"
                /\ run[r].outcome \in {"ok", "sales", "sale_items", "stock"})

\* the screen calls the store's completeSale only with a draft of at least
\* one line and an amount paid of at least the total completeSale computes
\* and sends
C21_PaidCoversComputedTotal ==
    \A r \in Runs :
        CalledStore(r) =>
            /\ run[r].paid >= run[r].total
            /\ run[r].paid >= run[r].saleInsert.total

\* C21 (as claimed): whenever the screen has called the store's
\* completeSale, the draft had at least one line and the amount paid is at
\* least the total stored for the sale.
C21_PaidCoversPersistedTotal ==
    \A r \in Runs :
        (CalledStore(r) /\ run[r].saleRow # 0) =>
            run[r].paid >= HeaderOf(r).total

\* C22: a completeSale that has succeeded undisturbed returned a Sale whose
\* id is the id of the header it stored and whose items are the lines the
\* draft had; the in-memory sales collection is that sale followed by what
\* it held before, and getSaleById with the id returns that sale.
C22_ReturnedSale ==
    \A r \in Runs :
        Finished(r, "ok") =>
            LET sn == run[r].snap
                s == run[r].sess
                res == run[r].result
            IN
            /\ res.id = run[r].saleRow
            /\ Len(dbSales) = sn.nSales + 1
            /\ dbSales[Len(dbSales)].id = res.id
            /\ res.items = sn.sale.items
            /\ sales[s] = <<res>> \o sn.sales
            /\ Len(sales[s]) = Len(sn.sales) + 1
            /\ getSaleById(s, res.id) = res

\* a sale of two lines, one of them of two units, has been returned
C22_Witness ==
    \E r \in Runs :
        /\ Finished(r, "ok")
        /\ Len(run[r].result.items) = 2
        /\ \E i \in 1..2 : run[r].result.items[i].quantity = 2
        /\ run[r].result.id # 0
        /\ getSaleById(run[r].sess, run[r].result.id) = run[r].result

\* C23 (as claimed): a deleteBook whose book is referenced by a stored sale
\* item when the delete is executed fails with the referential-conflict
\* message, and the book is still stored and in memory and the sale items
\* are untouched.
C23_DeleteReferencedFails ==
    \A r \in Runs :
        (/\ run[r].pc = "idle"
         /\ run[r].outcome \in {"deleted", "delete_failed"}
         /\ run[r].refs > 0) =>
            LET s == run[r].sess
                id == run[r].update.id
            IN
            /\ run[r].outcome = "delete_failed"
            /\ booksFlags[s].error = ErrDeleteReferenced
            /\ dbBooks[id] # NoBook
            /\ books[s][id] # NoBook
            /\ Len(dbItems) = run[r].rows
            /\ Len(ReferencingItems(id)) = run[r].refs

\* C24: a request on books, customers, sales or sale_items whose caller is not
\* listed in admins when it is executed reads no row and changes no row
C24_AdminOnly ==
    [][(request'.cmd # "none" /\ ~request'.admin)
        => /\ request'.rows = 0
           /\ UNCHANGED <<dbBooks, dbCustomers, dbSales, dbItems>>]_vars

\* a signed-in user who is not an administrator selected from a table that
\* has rows
C24_Witness ==
    /\ request.cmd = "select"
    /\ request.caller \in Users
    /\ ~request.admin
    /\ RowCount(request.table) > 0
    /\ request.rows = 0
Setters == {"setCustomer", "setPaymentMethod", "setDiscount", "setNotes"}

\* the four field setters leave the draft's lines as they were
C25_SettersKeepLines ==
    \A s \in Sessions :
        (call.op \in Setters /\ call.sess = s)
            => currentSale[s].items = call.sale.items

\* C25: after setDiscount(d) the draft's discount is 0 for d < 0, 100 for
\* d > 100 and d otherwise, so it lies in [0, 100] after any sequence of
\* calls, and the four field setters leave the draft's lines unchanged
C25_DiscountClamped ==
    /\ \A s \in Sessions : currentSale[s].discount \in 0..100
    /\ \A s \in Sessions :
        (call.op = "setDiscount" /\ call.sess = s /\ call.quantity # NaN)
            => currentSale[s].discount =
                  (IF call.quantity < 0 THEN 0
                   ELSE IF call.quantity > 100 THEN 100 ELSE call.quantity)
    /\ C25_SettersKeepLines
RECURSIVE SumTotalPrice(_)
SumTotalPrice(rows) ==
    IF rows = <<>> THEN 0
    ELSE Head(rows).total_price + SumTotalPrice(Tail(rows))

\* C26: the header stored by a completeSale that has returned successfully
\* has at least one stored sale item, and its subtotal is the sum of
\* total_price over its stored sale items, whatever happened to the draft
\* while the call was suspended
C26_HeaderMatchesItems ==
    \A r \in Runs :
        (run[r].pc = "idle" /\ run[r].outcome = "ok" /\ run[r].saleRow # 0) =>
            LET rows == ItemsOfSale(run[r].saleRow) IN
            /\ Len(rows) >= 1
            /\ HeaderOf(r).subtotal = SumTotalPrice(rows)
FailOutcomes == {"sales", "sale_items", "stock"}

FailMessage(outcome) ==
    CASE outcome = "sales" -> ErrSaleInsert
      [] outcome = "sale_items" -> ErrItemsInsert
      [] outcome = "stock" -> ErrUpdateBook

\* no persistence call has been issued twice
NoCallRepeated(log) ==
    \A i, j \in 1..Len(log) :
        (i < j /\ log[i][1] = "issue") => log[i] # log[j]

\* the state a failed completeSale leaves
FailedAsClaimed(r, outcome) ==
    LET s == run[r].sess IN
    /\ error[s] = FailMessage(outcome)
    /\ ~loading[s]
    /\ currentSale[s] = run[r].snap.sale
    /\ run[r].result = IdleRun.result
    /\ run[r].log[Len(run[r].log)] = <<"fail", outcome, "-">>
    /\ NoCallRepeated(run[r].log)

\* a completeSale invoked right after a failed one issues the header insert
\* for the same draft, and the insert stores one more header under a new id
RetryAsClaimed ==
    \A r \in Runs :
        /\ \A outcome \in FailOutcomes :
            (Finished(r, outcome) /\ run'[r].pc = "hdr") =>
                /\ run'[r].saleInsert = SaleInsert(run[r].snap.sale)
                /\ run'[r].log = <<<<"issue", "sales", "-">>>>
        /\ (run[r].pc = "hdr" /\ dbSales' # dbSales) =>
                /\ Len(dbSales') = Len(dbSales) + 1
                /\ SubSeq(dbSales', 1, Len(dbSales)) = dbSales
                /\ \A i \in 1..Len(dbSales) :
                        dbSales[i].id # dbSales'[Len(dbSales')].id
                /\ dbSales'[Len(dbSales')] =
                        SaleRow(dbSales'[Len(dbSales')].id, run[r].saleInsert)

\* C27: when completeSale fails at the header insert, the items insert or a
\* stock update, with no other activity during the call, the store's error
\* is the failure's message, the error is rethrown, loading is false, the
\* draft is what it was at invocation and no persistence call was issued
\* twice; a completeSale invoked right after inserts a new header for the
\* same draft
C27_FailureAndRetry ==
    /\ [](\A r \in Runs : \A outcome \in FailOutcomes :
            Finished(r, outcome) => FailedAsClaimed(r, outcome))
    /\ [][RetryAsClaimed]_vars

\* the items insert of a checkout failed and the checkout invoked again for
\* the same draft has stored a second header
C27_Witness ==
    /\ Len(dbSales) = 2
    /\ run["r1"].pc = "items"
    /\ run["r1"].clean
    /\ ItemsOfSale(dbSales[1].id) = <<>>
    /\ dbSales[2] = [dbSales[1] EXCEPT !.id = dbSales[2].id]
    /\ dbSales[2].id # dbSales[1].id
\* updateStock for a book that is not in memory: nothing is issued, nothing
\* changes, no error is stored or thrown
AbsentStockNoEffect ==
    \A r \in Runs :
        (run'[r].outcome = "absent" /\ run'[r] # run[r]) =>
            /\ run'[r].pc = "idle"
            /\ run'[r].log = <<>>
            /\ UNCHANGED <<dbBooks, dbSales, dbItems, books, booksFlags,
                           currentSale, sales, loading, error>>

\* the lines of the draft completeSale r was invoked on whose book was not
\* in memory then
AbsentLines(r) ==
    {i \in 1..Len(run[r].snap.sale.items) :
        run[r].snap.books[run[r].snap.sale.items[i].bookId] = NoBook}

\* the database accepts the sale items call r is inserting
ItemsAccepted(r) ==
    \A i \in 1..Len(run[r].itemsRows) : ItemChecks(ItemRow(run[r].itemsRows[i]))

\* a successful completeSale has stored the sale item of each line whose
\* book was not in memory, issued no update for it and left its stock alone
AbsentLinesSold(r) ==
    \A i \in AbsentLines(r) :
        LET line == run[r].snap.sale.items[i] IN
        /\ \E k \in 1..Len(dbItems) :
                /\ dbItems[k].sale_id = run[r].saleRow
                /\ dbItems[k].book_id = line.bookId
                /\ dbItems[k].quantity = line.quantity
        /\ dbBooks[line.bookId] = run[r].snap.dbBooks[line.bookId]
        /\ \A k \in 1..Len(run[r].log) :
                run[r].log[k] # <<"issue", "stock", line.bookId>>

\* C28 (as claimed): updateStock for a book absent from the in-memory
\* catalog issues nothing, changes nothing and raises nothing; completeSale
\* with a line whose book has left the in-memory catalog has its sale items
\* accepted, and when it has returned the sale item of that line is stored
\* and no stock was decremented for it
C28_AbsentBookSaleSucceeds ==
    /\ [][AbsentStockNoEffect]_vars
    /\ [](\A r \in Runs :
            (run[r].pc = "items" /\ run[r].clean /\ AbsentLines(r) # {})
                => ItemsAccepted(r))
    /\ [](\A r \in Runs : Finished(r, "ok") => AbsentLinesSold(r))

\* C28 (amended): the same for a line whose book has left the in-memory
\* catalog and is still stored in table books
C28_AbsentStoredBookSale ==
    /\ [][AbsentStockNoEffect]_vars
    /\ [](\A r \in Runs :
            (/\ run[r].pc = "items" /\ run[r].clean /\ AbsentLines(r) # {}
             /\ \A i \in 1..Len(run[r].itemsRows) :
                    dbBooks[run[r].itemsRows[i].book_id] # NoBook)
                => ItemsAccepted(r))
    /\ [](\A r \in Runs : Finished(r, "ok") => AbsentLinesSold(r))

\* a checkout of two lines has succeeded; the book of one was in memory and
\* its stock was decremented, the book of the other had left memory with a
\* load of a short page and its stock is what it was
C28_Witness ==
    \E r \in Runs :
        /\ Finished(r, "ok")
        /\ Len(run[r].snap.sale.items) = 2
        /\ Cardinality(AbsentLines(r)) = 1
        /\ Len(ItemsOfSale(run[r].saleRow)) = 2
        /\ \E b \in Books : dbBooks[b].stock < SeedBooks[b].stock
        /\ \E b \in Books :
                /\ run[r].snap.books[b] = NoBook
                /\ dbBooks[b] = SeedBooks[b]
\* C29: when the guard has returned, a route that requires auth was admitted
\* only with the session authenticated and isAdmin true at that moment, an
\* unauthenticated session was redirected to login, an authenticated session
\* with isAdmin false to no-access, and no-access was admitted
C29_GuardAdmits ==
    LET g == task["guard"] IN
    (g.pc = "idle" /\ g.result # "-") =>
        /\ g.to = "no-access" => g.result = "admit"
        /\ (RequiresAuth(g.to) /\ g.result = "admit")
                => (g.authenticated /\ g.isAdmin = Yes)
        /\ (RequiresAuth(g.to) /\ ~g.authenticated) => g.result = "login"
        /\ (RequiresAuth(g.to) /\ g.authenticated /\ g.isAdmin = No)
                => g.result = "no-access"

\* C30: the session is read at most once and at most one listener is
\* registered, however the calls of initAuth from the mount hook and from
\* the guard interleave
C30_InitAuthOnce ==
    /\ client.reads <= 1
    /\ client.subs <= 1
====
